---------------------------- MODULE Spec2Model ----------------------------
(***************************************************************************)
(* A model of the team issues report (src/team_issues_report.js) and of    *)
(* the user activity fetcher (src/unnamed/part_000): the cursor-paginated  *)
(* collection loops, the merged-PR classifier hasMergedPR, the per-user    *)
(* statistics of getUserIssueStats, the team report with its user          *)
(* resolver (generateTeamIssuesReport, findUsersByEmails), the activity    *)
(* join of getUserActivity, the issue filters of getUserIssueStats and     *)
(* normalizeLineTerminators.                                               *)
(*                                                                         *)
(* The remote API (the Linear client) is the environment.  What it answers *)
(* is drawn in the initial state (record lists, page size, the way it      *)
(* reports hasNextPage and endCursor, attachments, workflow state, users,  *)
(* comments, reactions, what an issue request does) or chosen at the call  *)
(* (a fetch that fails, a getUserIssueStats that raises).                  *)
(***************************************************************************)
EXTENDS Integers, Sequences, FiniteSets, TLC

VARIABLES
  \* ---- hasMergedPR called on its own ----
  mpc,        \* "idle" before the call, "done" after it
  mIssue,     \* the issue handed to hasMergedPR
  mOut,       \* the completion of the call
  \* ---- the collection operations ----
  op,                  \* the operation that runs: "getAllUsers", "getUserActivity"
                       \* (its user loop), "getUserIssueStats", or "none"
  pc,                  \* where the operation stands
  remote,              \* what the remote holds and how it pages it
  hasNextPage,         \* the local of that name
  after,               \* the local of that name
  allUsers,            \* getAllUsers / getUserActivity: the accumulator
  assignedCount,       \* getUserIssueStats
  assignedIssuesList,
  createdCount,
  createdIssuesList,
  mergedPRCount,
  idx,                 \* position of the running for-of loop
  stats,               \* the stats object being filled
  result,              \* the completion of the operation
  \* ---- history, not read by the operations ----
  fetches,             \* page fetches answered, per collection loop
  lastLen,             \* records of the page fetched last in the running loop
  fetchFailed,         \* a page fetch was rejected
  calls,               \* the issue ids hasMergedPR was called with, in order
  \* ---- generateTeamIssuesReport ----
  teamEmails,          \* the parameter: null, or a list of emails
  targetUsers,         \* the local of that name
  notFound,            \* findUsersByEmails: the emails without a user
  teamStats,           \* the local of that name
  failedUsers,         \* history: the positions of targetUsers whose processing raised
  \* ---- getUserActivity after its user loop ----
  userEmail,           \* the parameter
  limit,               \* options.limit, the `first` of every list request
  user,                \* the local of that name
  activity,            \* the activity object being filled
  reactionsByIssue,    \* the Map of that name, its entries in insertion order
  issueIdsWithActivity,  \* the Set of that name, its members in insertion order
  activityRemote,      \* what the remote answers to the requests of getUserActivity
  requests,            \* history: the requests made to the remote, in order, by
                       \* getUserActivity or for the users of the team report
  \* ---- normalizeLineTerminators, and the filters of getUserIssueStats ----
  ppc,                 \* where the function called is
  text,                \* the parameter of normalizeLineTerminators
  normalized,          \* what normalizeLineTerminators returns
  since,               \* options.since
  until,               \* options.until
  assignedFilter,      \* the local of that name
  createdFilter        \* the local of that name

mergedVars == <<mpc, mIssue, mOut>>

collectVars ==
  <<op, pc, remote, hasNextPage, after, allUsers, assignedCount, assignedIssuesList,
    createdCount, createdIssuesList, mergedPRCount, idx, stats, result,
    fetches, lastLen, fetchFailed, calls>>

teamVars == <<teamEmails, targetUsers, notFound, teamStats, failedUsers>>

activityVars ==
  <<userEmail, limit, user, activity, reactionsByIssue, issueIdsWithActivity,
    activityRemote, requests>>

pureVars == <<ppc, text, normalized, since, until, assignedFilter, createdFilter>>

vars == <<mergedVars, collectVars, teamVars, activityVars, pureVars>>

-----------------------------------------------------------------------------
(* Bounds of the model.                                                    *)

\* the longest attachment list an issue carries
MaxAtt == 2

\* the most records the remote holds in one collection
MaxN == 3

\* the largest page the remote serves
MaxPage == 2

\* page fetches after which a collection loop that has not ended is cut off
MaxFetch == MaxN + 3

-----------------------------------------------------------------------------
(* JavaScript values: a value carries its type, so that === and truthiness *)
(* are computed as the language computes them.                             *)

Undefined == [type |-> "undefined", val |-> ""]

JSNull == [type |-> "null", val |-> ""]

JSString(s) == [type |-> "string", val |-> s]

JSBoolean(b) == [type |-> "boolean", val |-> IF b THEN "true" ELSE "false"]

\* ToBoolean: undefined, null, "" and false are falsy; objects are truthy
Truthy(v) ==
  CASE v.type = "undefined" -> FALSE
    [] v.type = "null" -> FALSE
    [] v.type = "string" -> v.val # ""
    [] v.type = "boolean" -> v.val = "true"
    [] OTHER -> TRUE

-----------------------------------------------------------------------------
(* Text: a string is the sequence of its characters.                       *)

ToLowerChar(c) ==
  CASE c = "A" -> "a" [] c = "B" -> "b" [] c = "C" -> "c" [] c = "D" -> "d"
    [] c = "E" -> "e" [] c = "F" -> "f" [] c = "G" -> "g" [] c = "H" -> "h"
    [] c = "I" -> "i" [] c = "J" -> "j" [] c = "K" -> "k" [] c = "L" -> "l"
    [] c = "M" -> "m" [] c = "N" -> "n" [] c = "O" -> "o" [] c = "P" -> "p"
    [] c = "Q" -> "q" [] c = "R" -> "r" [] c = "S" -> "s" [] c = "T" -> "t"
    [] c = "U" -> "u" [] c = "V" -> "v" [] c = "W" -> "w" [] c = "X" -> "x"
    [] c = "Y" -> "y" [] c = "Z" -> "z" [] OTHER -> c

\* String.prototype.toLowerCase
ToLowerCase(s) == [i \in 1..Len(s) |-> ToLowerChar(s[i])]

\* String.prototype.includes: t occurs in s as a contiguous run
Includes(s, t) ==
  \E i \in 0..(Len(s) - Len(t)) : SubSeq(s, i + 1, i + Len(t)) = t

\* the literals of hasMergedPR's shape test
StrPull == <<"/", "p", "u", "l", "l", "/">>

StrPulls == <<"/", "p", "u", "l", "l", "s", "/">>

StrMergeRequests ==
  <<"/", "m", "e", "r", "g", "e", "_", "r", "e", "q", "u", "e", "s", "t", "s", "/">>

StrPullRequest == <<"p", "u", "l", "l", " ", "r", "e", "q", "u", "e", "s", "t">>

StrMergeRequest == <<"m", "e", "r", "g", "e", " ", "r", "e", "q", "u", "e", "s", "t">>

StrPullWord == <<"p", "u", "l", "l">>

StrMergeWord == <<"m", "e", "r", "g", "e">>


-----------------------------------------------------------------------------
(* The issues hasMergedPR is applied to.                                   *)
(*                                                                         *)
(* An attachment is the node the attachments connection returns: present   *)
(* is FALSE for a null node; url, subtitle, title and subtype are texts,   *)
(* an absent one being the empty text (the code reads each as `x || ''`);  *)
(* metadata is undefined or an object with the keys state, merged and      *)
(* status.  stateErr tells whether the workflow-state lookup rejects when  *)
(* it is made while this attachment is examined.                           *)

NoText == <<>>

MetaObject(state, merged, status) ==
  [type |-> "object", state |-> state, merged |-> merged, status |-> status]

Metas ==
  { Undefined,
    MetaObject(Undefined, Undefined, Undefined),
    MetaObject(JSString("merged"), Undefined, Undefined),
    MetaObject(Undefined, JSBoolean(TRUE), Undefined),
    MetaObject(Undefined, Undefined, JSString("merged")),
    MetaObject(JSString("open"), JSBoolean(FALSE), Undefined),
    MetaObject(Undefined, JSString("true"), Undefined) }

Shape(url, title, subtitle, subtype) ==
  [url |-> url, title |-> title, subtitle |-> subtitle, subtype |-> subtype]

UrlHost == <<"g", "i", "t", "/", "o", "/", "r">>

\* a GitHub pull request URL
ShapeUrlPull == Shape(UrlHost \o StrPull \o <<"7">>, NoText, NoText, NoText)

Shapes ==
  { Shape(NoText, NoText, NoText, NoText),
    ShapeUrlPull,
    Shape(UrlHost \o StrPulls, NoText, NoText, NoText),
    Shape(UrlHost \o <<"/", "-">> \o StrMergeRequests \o <<"3">>, NoText, NoText, NoText),
    Shape(UrlHost \o <<"/", "P", "U", "L", "L", "/", "4">>, NoText, NoText, NoText),
    Shape(UrlHost \o <<"/", "p", "u", "l", "l">>, NoText, NoText, NoText),
    Shape(NoText, <<"P", "u", "l", "l", " ", "R", "e", "q", "u", "e", "s", "t", " ", "9">>,
          NoText, NoText),
    Shape(NoText, <<"m", "e", "r", "g", "e", " ", "r", "e", "q", "u", "e", "s", "t">>,
          NoText, NoText),
    Shape(NoText, <<"p", "u", "l", "l", "-", "r", "e", "q", "u", "e", "s", "t">>,
          NoText, NoText),
    Shape(NoText, NoText,
          <<"P", "U", "L", "L", " ", "R", "E", "Q", "U", "E", "S", "T">>, NoText),
    Shape(NoText, NoText,
          <<"M", "e", "r", "g", "e", " ", "R", "e", "q", "u", "e", "s", "t">>, NoText),
    Shape(NoText, NoText, NoText, <<"p", "u", "l", "l", "R", "e", "q", "u", "e", "s", "t">>),
    Shape(NoText, NoText, NoText, <<"M", "e", "r", "g", "e">>),
    Shape(NoText, NoText, NoText, <<"l", "i", "n", "k">>) }

Attachment(shape, metadata, stateErr) ==
  [present |-> TRUE, url |-> shape.url, title |-> shape.title,
   subtitle |-> shape.subtitle, subtype |-> shape.subtype,
   metadata |-> metadata, stateErr |-> stateErr]

NullAttachment ==
  [present |-> FALSE, url |-> NoText, title |-> NoText, subtitle |-> NoText,
   subtype |-> NoText, metadata |-> Undefined, stateErr |-> FALSE]

\* the shapes that also come with merged metadata: one PR shape by URL, one
\* by title, one that only looks like a PR, and the empty one
MergedShapes ==
  { ShapeUrlPull,
    Shape(NoText, <<"P", "u", "l", "l", " ", "R", "e", "q", "u", "e", "s", "t", " ", "9">>,
          NoText, NoText),
    Shape(UrlHost \o <<"/", "P", "U", "L", "L", "/", "4">>, NoText, NoText, NoText),
    Shape(NoText, NoText, NoText, NoText) }

\* every shape without metadata; some shapes with merged metadata; a pull
\* request URL with every metadata; a pull request URL whose state lookup
\* rejects; a null node
Attachments ==
  {NullAttachment}
    \cup { Attachment(s, Undefined, FALSE) : s \in Shapes }
    \cup { Attachment(s, MetaObject(JSString("merged"), Undefined, Undefined), FALSE) :
             s \in MergedShapes }
    \cup { Attachment(ShapeUrlPull, m, FALSE) : m \in Metas }
    \cup { Attachment(ShapeUrlPull, m, TRUE) :
             m \in {Undefined, MetaObject(JSString("open"), JSBoolean(FALSE), Undefined),
                    MetaObject(Undefined, JSBoolean(TRUE), Undefined)} }

StateNames == {"Done", "Completed", "Merged", "In Progress", "done"}

\* what `await issue.state` resolves to: null, or a state with a name
WorkflowStates == {JSNull} \cup {[type |-> "object", name |-> n] : n \in StateNames}

AttachmentLists == UNION {[1..n -> Attachments] : n \in 0..MaxAtt}

\* what `await issue.attachments()` does: it rejects, or resolves to
\* nothing, or to a connection with nodes
AttachmentAnswers ==
  { [outcome |-> "rejects", nodes |-> <<>>], [outcome |-> "null", nodes |-> <<>>] }
    \cup { [outcome |-> "connection", nodes |-> l] : l \in AttachmentLists }

Issues == [attachments : AttachmentAnswers, state : WorkflowStates]

-----------------------------------------------------------------------------
(* hasMergedPR (src/team_issues_report.js, 131-249).                       *)
(*                                                                         *)
(* A completion is a return with a value or a throw.  Beside it the model  *)
(* records what the call did: stateReads counts the `await issue.state`    *)
(* lookups it made, examined the loop iterations it entered, caught the    *)
(* attachments (by index) whose examination ended in the inner catch.      *)

Trace0 == [stateReads |-> 0, examined |-> 0, caught |-> {}]

Return(v, t) ==
  [kind |-> "return", value |-> v, stateReads |-> t.stateReads,
   examined |-> t.examined, caught |-> t.caught]

Throw(t) ==
  [kind |-> "throw", value |-> FALSE, stateReads |-> t.stateReads,
   examined |-> t.examined, caught |-> t.caught]

\* isPR with the URL markers matched loosely: any case, no slashes
isPRLooseUrl(attachmentData) ==
  LET url == attachmentData.url
      subtitle == attachmentData.subtitle
      title == attachmentData.title
      subtype == attachmentData.subtype
  IN  \/ Includes(ToLowerCase(url), StrPullWord)
      \/ Includes(ToLowerCase(url), StrMergeWord)
      \/ Includes(ToLowerCase(subtitle), StrPullRequest)
      \/ Includes(ToLowerCase(subtitle), StrMergeRequest)
      \/ Includes(ToLowerCase(title), StrPullRequest)
      \/ Includes(ToLowerCase(title), StrMergeRequest)
      \/ Includes(ToLowerCase(subtype), StrPullWord)
      \/ Includes(ToLowerCase(subtype), StrMergeWord)

\* the shape test of lines 173-181
isPR(attachmentData) ==
  LET url == attachmentData.url
      subtitle == attachmentData.subtitle
      title == attachmentData.title
      subtype == attachmentData.subtype
  IN  \/ Includes(url, StrPull)
      \/ Includes(url, StrMergeRequests)
      \/ Includes(url, StrPulls)
      \/ Includes(ToLowerCase(subtitle), StrPullRequest)
      \/ Includes(ToLowerCase(subtitle), StrMergeRequest)
      \/ Includes(ToLowerCase(title), StrPullRequest)
      \/ Includes(ToLowerCase(title), StrMergeRequest)
      \/ Includes(ToLowerCase(subtype), StrPullWord)
      \/ Includes(ToLowerCase(subtype), StrMergeWord)

\* isMerged reading the state field only
isMergedStateOnly(metadata) == metadata.state = JSString("merged")

\* lines 202-204: the three recognised signals, compared with ===
isMerged(metadata) ==
  \/ metadata.state = JSString("merged")
  \/ metadata.merged = JSBoolean(TRUE)
  \/ metadata.status = JSString("merged")

\* isDoneState accepting the lower-case name too
isDoneStateAnyCase(state) ==
  /\ Truthy(state)
  /\ state.name \in {"Done", "Completed", "Merged", "done", "completed", "merged"}

\* line 221: state && (state.name === 'Done' || ... )
isDoneState(state) ==
  /\ Truthy(state)
  /\ \/ state.name = "Done"
     \/ state.name = "Completed"
     \/ state.name = "Merged"

\* the body of the inner try without the shape test: every attachment
\* present is taken for a pull request
ExamineAttachmentAnyShape(issue, attachment) ==
  IF ~attachment.present
    THEN [out |-> "next", reads |-> 0]
  ELSE IF Truthy(attachment.metadata) /\ isMerged(attachment.metadata)
    THEN [out |-> "true", reads |-> 0]
  ELSE IF attachment.stateErr
    THEN [out |-> "error", reads |-> 1]
  ELSE IF isDoneState(issue.state)
    THEN [out |-> "true", reads |-> 1]
  ELSE [out |-> "next", reads |-> 1]

\* The body of the inner try (lines 147-230) for one attachment: "true"
\* when it returns true, "next" when it goes on to the next attachment
\* (`continue`, or the end of the body), "error" when it raises.
ExamineAttachment(issue, attachment) ==
  IF ~attachment.present
    THEN [out |-> "next", reads |-> 0]
  ELSE IF ~isPR(attachment)
    THEN [out |-> "next", reads |-> 0]
  ELSE IF Truthy(attachment.metadata) /\ isMerged(attachment.metadata)
    THEN [out |-> "true", reads |-> 0]
  ELSE IF attachment.stateErr
    THEN [out |-> "error", reads |-> 1]
  ELSE IF isDoneState(issue.state)
    THEN [out |-> "true", reads |-> 1]
  ELSE [out |-> "next", reads |-> 1]

\* the inner catch giving up on the whole issue
AttachmentCatchAborts(r) == [out |-> "error", reads |-> r.reads]

\* lines 231-237: the inner catch skips the attachment
AttachmentCatch(r) == [out |-> "next", reads |-> r.reads]

\* one iteration of the loop of lines 143-238
AttachmentIteration(issue, attachment) ==
  LET r == ExamineAttachment(issue, attachment)
  IN  IF r.out = "error" THEN AttachmentCatch(r) ELSE r

\* the loop of lines 143-238 from node i on, and the `return false` of 240
RECURSIVE AttachmentLoop(_, _, _, _)
AttachmentLoop(issue, nodes, i, t) ==
  IF i > Len(nodes)
    THEN Return(FALSE, t)
    ELSE LET r == ExamineAttachment(issue, nodes[i])
             s == AttachmentIteration(issue, nodes[i])
             t2 == [stateReads |-> t.stateReads + s.reads,
                    examined |-> t.examined + 1,
                    caught |-> IF r.out = "error" THEN t.caught \cup {i} ELSE t.caught]
         IN  CASE s.out = "true" -> Return(TRUE, t2)
               [] s.out = "next" -> AttachmentLoop(issue, nodes, i + 1, t2)
               [] OTHER -> Throw(t2)

\* the body of the outer try, lines 133-240
hasMergedPRBody(issue) ==
  IF issue.attachments.outcome = "rejects"
    THEN Throw(Trace0)
  ELSE IF issue.attachments.outcome = "null" \/ Len(issue.attachments.nodes) = 0
    THEN Return(FALSE, Trace0)
  ELSE AttachmentLoop(issue, issue.attachments.nodes, 1, Trace0)

\* the outer catch raising again
OuterCatchRethrows(r) == Throw(r)

\* lines 241-248: the outer catch returns false
OuterCatch(r) == Return(FALSE, r)

hasMergedPR(issue) ==
  LET r == hasMergedPRBody(issue)
  IN  IF r.kind = "throw" THEN OuterCatch(r) ELSE r

-----------------------------------------------------------------------------
(* The remote's cursor-paginated collections.                              *)
(*                                                                         *)
(* remote.users, remote.assigned and remote.created are the records the    *)
(* remote holds for the three queries, in the order it emits them.  It     *)
(* serves them in pages of remote.pageSize records.  remote.hasNext is how *)
(* it reports pageInfo.hasNextPage: "exact" (true while records remain),   *)
(* "full" (true after every full page) or "always".  remote.cursor is how  *)
(* it reports pageInfo.endCursor: "token" (the cursor of the page's last   *)
(* record, null on a page without records) or "null" (never a cursor).     *)

UserIds == {"U1", "U2"}

IssueIds == {"I1", "I2"}

HasNextKinds == {"exact", "full", "always"}

CursorKinds == {"token", "null"}

\* the cursor that names position p of a collection
Token(p) == JSString("c" \o ToString(p))

\* the position a cursor names
PosOf(cursor) == CHOOSE p \in 0..(MaxN + 1) : Token(p) = cursor

Min(a, b) == IF a <= b THEN a ELSE b

\* the page the remote answers to a fetch with these arguments: it starts
\* after the cursor, or at the first record when no cursor is given
RemotePage(recs, args) ==
  LET pos == IF args.after.type = "string" THEN PosOf(args.after) ELSE 0
      last == Min(pos + remote.pageSize, Len(recs))
      nodes == SubSeq(recs, pos + 1, last)
      more == CASE remote.hasNext = "exact" -> last < Len(recs)
                [] remote.hasNext = "full" -> Len(nodes) = remote.pageSize
                [] OTHER -> TRUE
      endCursor == IF remote.cursor = "token" /\ Len(nodes) > 0 THEN Token(last) ELSE JSNull
  IN  [nodes |-> nodes, pageInfo |-> [hasNextPage |-> more, endCursor |-> endCursor]]

SeqsUpTo(S, n) == UNION {[1..k -> S] : k \in 0..n}

Remotes(users, assigned, created) ==
  [users : users, assigned : assigned, created : created, pageSize : 1..MaxPage,
   hasNext : HasNextKinds, cursor : CursorKinds]

\* the issue the remote holds under an id: I1 carries a merged pull
\* request, I2 has no attachment and is Done
RemoteIssue(id) ==
  IF id = "I1"
    THEN [attachments |->
            [outcome |-> "connection",
             nodes |-> <<Attachment(ShapeUrlPull,
                                    MetaObject(JSString("merged"), Undefined, Undefined),
                                    FALSE)>>],
          state |-> [type |-> "object", name |-> "In Progress"]]
    ELSE [attachments |-> [outcome |-> "connection", nodes |-> <<>>],
          state |-> [type |-> "object", name |-> "Done"]]
-----------------------------------------------------------------------------
(* The collection loops: getAllUsers (src/team_issues_report.js, 54-77),   *)
(* the same loop of getUserActivity (src/unnamed/part_000, 46-60) and      *)
(* getUserIssueStats (src/team_issues_report.js, 254-368).                 *)

NoValue == <<>>

NoResult == [kind |-> "none", value |-> NoValue]

\* lines 257-265, without the user's identity
Stats0 == [assigned |-> 0, created |-> 0, withMergedPRs |-> 0, totalHandled |-> 0]

Fetches0 == [users |-> 0, assigned |-> 0, created |-> 0]

\* the arguments dropping the cursor
FetchArgsNoCursor(a) == [after |-> Undefined]

\* `...(after && { after })`: the cursor is passed when it is truthy
FetchArgs(a) == [after |-> IF Truthy(a) THEN a ELSE Undefined]

\* the accumulator overwritten by the page
AccumulateReplace(list, nodes) == nodes

\* `list.push(...page.nodes)`
Accumulate(list, nodes) == list \o nodes

\* the issue loops going on whenever the page reports a next page
IssueLoopContinuesNoBreak(next, n) == next

\* lines 287-301 and 333-347: `while (hasNextPage)` with the break on a
\* page without records
IssueLoopContinues(next, n) == next /\ n # 0

\* lines 62-71, and part_000 51-60: `while (hasNextPage)`, no break
UsersLoopContinues(next, n) == next

InitCollect(o, remotes) ==
  /\ op = o
  /\ pc = IF o = "getUserIssueStats" THEN "assignedLoop" ELSE "usersLoop"
  /\ remote \in remotes
  /\ hasNextPage = TRUE
  /\ after = JSNull
  /\ allUsers = <<>>
  /\ assignedCount = 0
  /\ assignedIssuesList = <<>>
  /\ createdCount = 0
  /\ createdIssuesList = <<>>
  /\ mergedPRCount = 0
  /\ idx = 0
  /\ stats = Stats0
  /\ result = NoResult
  /\ fetches = Fetches0
  /\ lastLen = -1
  /\ fetchFailed = FALSE
  /\ calls = <<>>

\* no collection operation runs
IdleCollect ==
  /\ op = "none"
  /\ pc = "idle"
  /\ remote = [users |-> <<>>, assigned |-> <<>>, created |-> <<>>, pageSize |-> 1,
               hasNext |-> "exact", cursor |-> "token"]
  /\ hasNextPage = TRUE
  /\ after = JSNull
  /\ allUsers = <<>>
  /\ assignedCount = 0
  /\ assignedIssuesList = <<>>
  /\ createdCount = 0
  /\ createdIssuesList = <<>>
  /\ mergedPRCount = 0
  /\ idx = 0
  /\ stats = Stats0
  /\ result = NoResult
  /\ fetches = Fetches0
  /\ lastLen = -1
  /\ fetchFailed = FALSE
  /\ calls = <<>>

statsLocals ==
  <<assignedCount, assignedIssuesList, createdCount, createdIssuesList,
    mergedPRCount, idx, stats, calls>>

\* one iteration of the user loop; caller is the operation it runs in
UsersLoopStep(caller) ==
  /\ op = caller
  /\ pc = "usersLoop"
  /\ fetches.users < MaxFetch
  /\ LET usersResponse == RemotePage(remote.users, FetchArgs(after))
         n == Len(usersResponse.nodes)
     IN  /\ allUsers' = Accumulate(allUsers, usersResponse.nodes)
         /\ hasNextPage' = usersResponse.pageInfo.hasNextPage
         /\ after' = usersResponse.pageInfo.endCursor
         /\ lastLen' = n
         /\ fetches' = [fetches EXCEPT !.users = @ + 1]
         /\ IF UsersLoopContinues(usersResponse.pageInfo.hasNextPage, n)
              THEN pc' = "usersLoop" /\ result' = result
              ELSE IF caller = "getAllUsers"
                THEN pc' = "returned"
                     /\ result' = [kind |-> "return", value |-> allUsers']
                ELSE pc' = "usersFetched" /\ result' = result
  /\ UNCHANGED <<op, remote, statsLocals, fetchFailed, mergedVars,
                 teamVars, activityVars, pureVars>>

\* a user page fetch is rejected: neither loop catches it
UsersFetchRejected(caller) ==
  /\ op = caller
  /\ pc = "usersLoop"
  /\ fetches.users < MaxFetch
  /\ pc' = "threw"
  /\ result' = [kind |-> "throw", value |-> NoValue]
  /\ fetchFailed' = TRUE
  /\ UNCHANGED <<op, remote, hasNextPage, after, allUsers, statsLocals, fetches,
                 lastLen, mergedVars,
                 teamVars, activityVars, pureVars>>

\* getAllUsers, lines 62-76
GetAllUsersPage == UsersLoopStep("getAllUsers")

GetAllUsersFetchRejected == UsersFetchRejected("getAllUsers")

\* getUserActivity, part_000 lines 51-60
GetUserActivityUsersPage == UsersLoopStep("getUserActivity")

GetUserActivityUsersFetchRejected == UsersFetchRejected("getUserActivity")

\* lines 287-303: one iteration of the assigned loop; when the loop ends,
\* stats.assigned is set and the check of the assigned issues starts
FetchAssignedPage ==
  /\ op = "getUserIssueStats"
  /\ pc = "assignedLoop"
  /\ fetches.assigned < MaxFetch
  /\ LET assignedIssues == RemotePage(remote.assigned, FetchArgs(after))
         n == Len(assignedIssues.nodes)
     IN  /\ assignedCount' = assignedCount + n
         /\ assignedIssuesList' = Accumulate(assignedIssuesList, assignedIssues.nodes)
         /\ hasNextPage' = assignedIssues.pageInfo.hasNextPage
         /\ after' = assignedIssues.pageInfo.endCursor
         /\ lastLen' = n
         /\ fetches' = [fetches EXCEPT !.assigned = @ + 1]
         /\ IF IssueLoopContinues(assignedIssues.pageInfo.hasNextPage, n)
              THEN pc' = "assignedLoop" /\ UNCHANGED <<stats, mergedPRCount, idx>>
              ELSE /\ pc' = "checkAssigned"
                   /\ stats' = [stats EXCEPT !.assigned = assignedCount']
                   /\ mergedPRCount' = 0
                   /\ idx' = 1
  /\ UNCHANGED <<op, remote, allUsers, createdCount, createdIssuesList, result,
                 fetchFailed, calls, mergedVars,
                 teamVars, activityVars, pureVars>>

\* the rejected fetch caught and taken as the end of the assigned loop
FetchAssignedRejectedSwallowed ==
  /\ op = "getUserIssueStats"
  /\ pc = "assignedLoop"
  /\ fetches.assigned < MaxFetch
  /\ fetchFailed' = TRUE
  /\ pc' = "checkAssigned"
  /\ stats' = [stats EXCEPT !.assigned = assignedCount]
  /\ mergedPRCount' = 0
  /\ idx' = 1
  /\ UNCHANGED <<op, remote, hasNextPage, after, allUsers, assignedCount,
                 assignedIssuesList, createdCount, createdIssuesList, result,
                 fetches, lastLen, calls, mergedVars,
                 teamVars, activityVars, pureVars>>

\* the fetch of line 288 is rejected: no try encloses the await, the error
\* leaves getUserIssueStats
FetchAssignedRejected ==
  /\ op = "getUserIssueStats"
  /\ pc = "assignedLoop"
  /\ fetches.assigned < MaxFetch
  /\ fetchFailed' = TRUE
  /\ pc' = "threw"
  /\ result' = [kind |-> "throw", value |-> NoValue]
  /\ UNCHANGED <<op, remote, hasNextPage, after, allUsers, statsLocals, fetches,
                 lastLen, mergedVars,
                 teamVars, activityVars, pureVars>>

\* lines 307-311: one iteration of the loop over assignedIssuesList
CheckAssignedIssue ==
  /\ op = "getUserIssueStats"
  /\ pc = "checkAssigned"
  /\ idx <= Len(assignedIssuesList)
  /\ LET issue == assignedIssuesList[idx]
         r == hasMergedPR(RemoteIssue(issue))
     IN  /\ calls' = Append(calls, issue)
         /\ IF r.kind = "throw"
              THEN /\ pc' = "threw"
                   /\ result' = [kind |-> "throw", value |-> NoValue]
                   /\ UNCHANGED <<mergedPRCount, idx>>
              ELSE /\ mergedPRCount' = IF r.value THEN mergedPRCount + 1 ELSE mergedPRCount
                   /\ idx' = idx + 1
                   /\ UNCHANGED <<pc, result>>
  /\ UNCHANGED <<op, remote, hasNextPage, after, allUsers, assignedCount,
                 assignedIssuesList, createdCount, createdIssuesList, stats,
                 fetches, lastLen, fetchFailed, mergedVars,
                 teamVars, activityVars, pureVars>>

\* lines 313-331: the assigned issues are checked, the created loop starts
StartCreatedLoop ==
  /\ op = "getUserIssueStats"
  /\ pc = "checkAssigned"
  /\ idx > Len(assignedIssuesList)
  /\ pc' = "createdLoop"
  /\ hasNextPage' = TRUE
  /\ after' = JSNull
  /\ createdCount' = 0
  /\ createdIssuesList' = <<>>
  /\ lastLen' = -1
  /\ UNCHANGED <<op, remote, allUsers, assignedCount, assignedIssuesList,
                 mergedPRCount, idx, stats, result, fetches, fetchFailed, calls,
                 mergedVars, teamVars, activityVars, pureVars>>

\* lines 333-349: one iteration of the created loop
FetchCreatedPage ==
  /\ op = "getUserIssueStats"
  /\ pc = "createdLoop"
  /\ fetches.created < MaxFetch
  /\ LET createdIssues == RemotePage(remote.created, FetchArgs(after))
         n == Len(createdIssues.nodes)
     IN  /\ createdCount' = createdCount + n
         /\ createdIssuesList' = Accumulate(createdIssuesList, createdIssues.nodes)
         /\ hasNextPage' = createdIssues.pageInfo.hasNextPage
         /\ after' = createdIssues.pageInfo.endCursor
         /\ lastLen' = n
         /\ fetches' = [fetches EXCEPT !.created = @ + 1]
         /\ IF IssueLoopContinues(createdIssues.pageInfo.hasNextPage, n)
              THEN pc' = "createdLoop" /\ UNCHANGED <<stats, idx>>
              ELSE /\ pc' = "checkCreated"
                   /\ stats' = [stats EXCEPT !.created = createdCount']
                   /\ idx' = 1
  /\ UNCHANGED <<op, remote, allUsers, assignedCount, assignedIssuesList,
                 mergedPRCount, result, fetchFailed, calls, mergedVars,
                 teamVars, activityVars, pureVars>>

\* the fetch of line 334 is rejected: the error leaves getUserIssueStats
FetchCreatedRejected ==
  /\ op = "getUserIssueStats"
  /\ pc = "createdLoop"
  /\ fetches.created < MaxFetch
  /\ fetchFailed' = TRUE
  /\ pc' = "threw"
  /\ result' = [kind |-> "throw", value |-> NoValue]
  /\ UNCHANGED <<op, remote, hasNextPage, after, allUsers, statsLocals, fetches,
                 lastLen, mergedVars,
                 teamVars, activityVars, pureVars>>

\* the set of checked issues left empty
checkedIssueIdsNone == {}

\* line 352
checkedIssueIds == {assignedIssuesList[i] : i \in DOMAIN assignedIssuesList}

\* lines 353-359: one iteration of the loop over createdIssuesList
CheckCreatedIssue ==
  /\ op = "getUserIssueStats"
  /\ pc = "checkCreated"
  /\ idx <= Len(createdIssuesList)
  /\ LET issue == createdIssuesList[idx]
         r == hasMergedPR(RemoteIssue(issue))
     IN  IF issue \in checkedIssueIds
           THEN idx' = idx + 1 /\ UNCHANGED <<pc, result, mergedPRCount, calls>>
           ELSE /\ calls' = Append(calls, issue)
                /\ IF r.kind = "throw"
                     THEN /\ pc' = "threw"
                          /\ result' = [kind |-> "throw", value |-> NoValue]
                          /\ UNCHANGED <<mergedPRCount, idx>>
                     ELSE /\ mergedPRCount' =
                               IF r.value THEN mergedPRCount + 1 ELSE mergedPRCount
                          /\ idx' = idx + 1
                          /\ UNCHANGED <<pc, result>>
  /\ UNCHANGED <<op, remote, hasNextPage, after, allUsers, assignedCount,
                 assignedIssuesList, createdCount, createdIssuesList, stats,
                 fetches, lastLen, fetchFailed, mergedVars,
                 teamVars, activityVars, pureVars>>

\* the total counting an issue that is in both lists once
ReturnStatsDistinct ==
  /\ op = "getUserIssueStats"
  /\ pc = "checkCreated"
  /\ idx > Len(createdIssuesList)
  /\ stats' = [stats EXCEPT
                 !.withMergedPRs = mergedPRCount,
                 !.totalHandled =
                   stats.assigned + stats.created
                     - Cardinality({k \in DOMAIN createdIssuesList :
                                      createdIssuesList[k] \in checkedIssueIds})]
  /\ result' = [kind |-> "return", value |-> stats']
  /\ pc' = "returned"
  /\ UNCHANGED <<op, remote, hasNextPage, after, allUsers, assignedCount,
                 assignedIssuesList, createdCount, createdIssuesList, mergedPRCount,
                 idx, fetches, lastLen, fetchFailed, calls, mergedVars,
                 teamVars, activityVars, pureVars>>

\* lines 361-367
ReturnStats ==
  /\ op = "getUserIssueStats"
  /\ pc = "checkCreated"
  /\ idx > Len(createdIssuesList)
  /\ stats' = [stats EXCEPT !.withMergedPRs = mergedPRCount,
                            !.totalHandled = stats.assigned + stats.created]
  /\ result' = [kind |-> "return", value |-> stats']
  /\ pc' = "returned"
  /\ UNCHANGED <<op, remote, hasNextPage, after, allUsers, assignedCount,
                 assignedIssuesList, createdCount, createdIssuesList, mergedPRCount,
                 idx, fetches, lastLen, fetchFailed, calls, mergedVars,
                 teamVars, activityVars, pureVars>>
-----------------------------------------------------------------------------
(* generateTeamIssuesReport (src/team_issues_report.js, 373-449) from the  *)
(* return of getAllUsers on, with findUsersByEmails (82-114).              *)
(*                                                                         *)
(* A user is the record the remote holds: an id and an email, the email a  *)
(* text, an absent one being the empty text (the code tests `u.email &&`). *)
(* getUserIssueStats enters as what it returns for the user against a      *)
(* remote that serves every record of the user's two issue lists, or as a  *)
(* call that raises; which of the two is chosen at the call.  Either way   *)
(* the requests the call makes are added to the history `requests`, each   *)
(* with the position of the target user the loop is at.                    *)

\* the longest user list getAllUsers returns
MaxUsers == 3

\* the longest list of team emails
MaxEmails == 2

EmailDomain == <<"@", "x">>

User(id, email) == [type |-> "object", id |-> id, email |-> email]

\* U1 and U3 have the same address up to case, U2's address contains it,
\* U4 has no address
Users ==
  { User("U1", <<"a">> \o EmailDomain),
    User("U2", <<"b", "a">> \o EmailDomain),
    User("U3", <<"A", "@", "X">>),
    User("U4", NoText) }

\* the addresses asked for: one that two users have and a third contains,
\* one that one user has, one that is only part of addresses, one unknown
Emails ==
  { <<"a">> \o EmailDomain,
    <<"B", "A">> \o EmailDomain,
    EmailDomain,
    <<"z">> \o EmailDomain }

\* the lists of n different users, in every order
RECURSIVE UserListsOf(_)
UserListsOf(n) ==
  IF n = 0
    THEN {<<>>}
    ELSE {Append(l, u) : l \in UserListsOf(n - 1), u \in Users}

UserLists ==
  {l \in UNION {UserListsOf(n) : n \in 0..MaxUsers} :
     \A j, k \in DOMAIN l : j # k => l[j].id # l[k].id}

\* an Array
JSArray(l) == [type |-> "array", val |-> l]

TeamEmailsInputs == {JSNull} \cup {JSArray(l) : l \in SeqsUpTo(Emails, MaxEmails)}

\* the issues the remote lists as assigned to a user and as created by it
RemoteUserIssues(id) ==
  CASE id = "U1" -> [assigned |-> <<"I1", "I2">>, created |-> <<"I1">>]
    [] id = "U2" -> [assigned |-> <<>>, created |-> <<>>]
    [] id = "U3" -> [assigned |-> <<"I2">>, created |-> <<"I1", "I2">>]
    [] OTHER -> [assigned |-> <<"I1">>, created |-> <<>>]

\* line 88, and part_000 line 67
ExactEmailMatch(u, email) ==
  u.email # NoText /\ ToLowerCase(u.email) = ToLowerCase(email)

\* line 96, and part_000 line 73
PartialEmailMatch(u, email) ==
  u.email # NoText /\ Includes(ToLowerCase(u.email), ToLowerCase(email))

\* Array.prototype.find: the first element of the list among those at the
\* positions that pass the test, or undefined
Find(list, passing) ==
  IF passing = {}
    THEN Undefined
    ELSE list[CHOOSE k \in passing : \A j \in passing : k <= j]

\* the lookup in one pass: the first user whose email contains the target
FindTeamUserOnePass(users, email) ==
  Find(users, {k \in DOMAIN users : PartialEmailMatch(users[k], email)})

\* lines 87-97: the exact match over the whole list, then the partial match
FindTeamUser(users, email) ==
  LET exact == Find(users, {k \in DOMAIN users : ExactEmailMatch(users[k], email)})
  IN  IF Truthy(exact)
        THEN exact
        ELSE Find(users, {k \in DOMAIN users : PartialEmailMatch(users[k], email)})

\* the loop body giving up the email that has no user
ResolveEmailDropsMiss(acc, users, email) ==
  LET found == FindTeamUser(users, email)
  IN  IF Truthy(found)
        THEN [acc EXCEPT !.foundUsers = Append(@, found)]
        ELSE acc

\* lines 86-105: the body of the loop over the emails
ResolveEmail(acc, users, email) ==
  LET found == FindTeamUser(users, email)
  IN  IF Truthy(found)
        THEN [acc EXCEPT !.foundUsers = Append(@, found)]
        ELSE [acc EXCEPT !.notFound = Append(@, email)]

RECURSIVE ResolveEmailsFrom(_, _, _, _)
ResolveEmailsFrom(acc, users, emails, k) ==
  IF k > Len(emails)
    THEN acc
    ELSE ResolveEmailsFrom(ResolveEmail(acc, users, emails[k]), users, emails, k + 1)

\* lines 82-114; the function returns foundUsers, notFound is what it warns of
findUsersByEmails(users, emails) ==
  ResolveEmailsFrom([foundUsers |-> <<>>, notFound |-> <<>>], users, emails, 1)

\* the number of members of the list that hasMergedPR answers true for
RECURSIVE CountMerged(_, _)
CountMerged(issues, skip) ==
  IF issues = <<>>
    THEN 0
    ELSE (IF Head(issues) \notin skip /\ hasMergedPR(RemoteIssue(Head(issues))).value
            THEN 1 ELSE 0)
         + CountMerged(Tail(issues), skip)

\* lines 254-368: what getUserIssueStats returns for the user
getUserIssueStats(u) ==
  LET lists == RemoteUserIssues(u.id)
      assignedIds == {lists.assigned[k] : k \in DOMAIN lists.assigned}
  IN  [userId |-> u.id,
       assigned |-> Len(lists.assigned),
       created |-> Len(lists.created),
       withMergedPRs |-> CountMerged(lists.assigned, {}) + CountMerged(lists.created, assignedIds),
       totalHandled |-> Len(lists.assigned) + Len(lists.created)]

\* the comparator of line 431
CompareStats(a, b) == b.totalHandled - a.totalHandled

\* the entry put before the entries it compares equal to
InsertStatsBeforeTies(sorted, s) ==
  LET before == Cardinality({k \in DOMAIN sorted : CompareStats(sorted[k], s) < 0})
  IN  SubSeq(sorted, 1, before) \o <<s>> \o SubSeq(sorted, before + 1, Len(sorted))

\* the entry put behind the entries that do not compare greater than it
InsertStats(sorted, s) ==
  LET before == Cardinality({k \in DOMAIN sorted : CompareStats(sorted[k], s) <= 0})
  IN  SubSeq(sorted, 1, before) \o <<s>> \o SubSeq(sorted, before + 1, Len(sorted))

\* line 431: Array.prototype.sort, a stable sort (ECMAScript 2019), as the
\* insertion of the entries one by one in their order
RECURSIVE SortStats(_)
SortStats(list) ==
  IF list = <<>>
    THEN <<>>
    ELSE InsertStats(SortStats(SubSeq(list, 1, Len(list) - 1)), list[Len(list)])

\* the reduce of lines 443-446 leaving out the last entry
RECURSIVE SumFieldButLast(_, _)
SumFieldButLast(list, field) ==
  IF Len(list) <= 1
    THEN 0
    ELSE Head(list)[field] + SumFieldButLast(Tail(list), field)

\* lines 443-446: `teamStats.reduce((sum, s) => sum + s.field, 0)`
RECURSIVE SumField(_, _)
SumField(list, field) ==
  IF list = <<>>
    THEN 0
    ELSE Head(list)[field] + SumField(Tail(list), field)

\* lines 433-448, without generatedAt and dateRange
Report(entries) ==
  [type |-> "object",
   teamStats |-> entries,
   summary |->
     [totalDevelopers |-> Len(entries),
      totalIssuesAssigned |-> SumField(entries, "assigned"),
      totalIssuesCreated |-> SumField(entries, "created"),
      totalIssuesWithMergedPRs |-> SumField(entries, "withMergedPRs"),
      totalIssuesHandled |-> SumField(entries, "totalHandled")]]

\* generateTeamIssuesReport does not run
IdleTeam ==
  /\ teamEmails = JSNull
  /\ targetUsers = <<>>
  /\ notFound = <<>>
  /\ teamStats = <<>>
  /\ failedUsers = {}

\* the locals of the collection loops that the report and the activity do
\* not use
collectLocals ==
  <<remote, hasNextPage, after, assignedCount, assignedIssuesList, createdCount,
    createdIssuesList, mergedPRCount, stats, fetches, lastLen, fetchFailed, calls>>

\* what getUserActivity keeps, but for the history of requests
activityLocals ==
  <<userEmail, limit, user, activity, reactionsByIssue, issueIdsWithActivity,
    activityRemote>>

\* the attachment requests hasMergedPR makes for the issues of a list that
\* are not skipped, one per issue (line 134)
AttachmentRequests(issues, skip) ==
  LET checked == SelectSeq(issues, LAMBDA i : i \notin skip)
  IN  [k \in DOMAIN checked |-> <<"attachments", checked[k]>>]

\* lines 287-359: the requests one call of getUserIssueStats makes for the
\* user, in order: the assigned issues (one page holds them), the
\* attachments of each, the created issues, the attachments of each that
\* is not among the assigned ones
UserRequests(u) ==
  LET lists == RemoteUserIssues(u.id)
      assignedIds == {lists.assigned[k] : k \in DOMAIN lists.assigned}
  IN  << <<"issues", "assignee", u.id>> >>
        \o AttachmentRequests(lists.assigned, {})
        \o << <<"issues", "creator", u.id>> >>
        \o AttachmentRequests(lists.created, assignedIds)

\* the places of the issue fetches among the requests: the requests whose
\* rejection getUserIssueStats does not catch
IssueFetches(reqs) == {n \in DOMAIN reqs : reqs[n][1] = "issues"}

\* requests made while the loop is at the target user of the position
ForTarget(position, reqs) ==
  [k \in DOMAIN reqs |-> [target |-> position, request |-> reqs[k]]]

\* lines 393-409: the target users are determined; without one the
\* function returns null
ResolveTargetUsers ==
  /\ op = "generateTeamIssuesReport"
  /\ pc = "usersFetched"
  /\ LET byEmail == Truthy(teamEmails) /\ Len(teamEmails.val) > 0
         resolved == findUsersByEmails(allUsers, teamEmails.val)
     IN  /\ targetUsers' = IF byEmail THEN resolved.foundUsers ELSE allUsers
         /\ notFound' = IF byEmail THEN resolved.notFound ELSE <<>>
         /\ IF Len(targetUsers') = 0
              THEN /\ pc' = "returned"
                   /\ result' = [kind |-> "return", value |-> JSNull]
                   /\ idx' = idx
              ELSE /\ pc' = "processUsers"
                   /\ result' = result
                   /\ idx' = 1
  /\ UNCHANGED <<op, allUsers, collectLocals, teamEmails, teamStats, failedUsers,
                 mergedVars, activityVars, pureVars>>

\* the catch of lines 423-427 pushing an entry of zeros for the user
ProcessUserRaisesZeroFilled ==
  /\ op = "generateTeamIssuesReport"
  /\ pc = "processUsers"
  /\ idx <= Len(targetUsers)
  /\ teamStats' = Append(teamStats,
                         [userId |-> targetUsers[idx].id, assigned |-> 0, created |-> 0,
                          withMergedPRs |-> 0, totalHandled |-> 0])
  /\ failedUsers' = failedUsers \cup {idx}
  /\ \E n \in IssueFetches(UserRequests(targetUsers[idx])) :
       requests' = requests
                     \o ForTarget(idx, SubSeq(UserRequests(targetUsers[idx]), 1, n))
  /\ idx' = idx + 1
  /\ UNCHANGED <<op, pc, allUsers, result, collectLocals, teamEmails, targetUsers,
                 notFound, mergedVars, activityLocals, pureVars>>

\* the call of getUserIssueStats not awaited: the loop goes on to the next
\* user while the last request for this one is still to be made
ProcessUserUnawaited ==
  /\ op = "generateTeamIssuesReport"
  /\ pc = "processUsers"
  /\ idx <= Len(targetUsers)
  /\ teamStats' = Append(teamStats, getUserIssueStats(targetUsers[idx]))
  /\ LET made == ForTarget(idx, UserRequests(targetUsers[idx]))
     IN  requests' =
           IF requests = <<>>
             THEN made
             ELSE SubSeq(requests, 1, Len(requests) - 1)
                    \o <<made[1], requests[Len(requests)]>>
                    \o Tail(made)
  /\ idx' = idx + 1
  /\ UNCHANGED <<op, pc, allUsers, result, collectLocals, teamEmails, targetUsers,
                 notFound, failedUsers, mergedVars, activityLocals, pureVars>>

\* lines 414-422: getUserIssueStats is awaited, making its requests; it
\* returns, and the stats are pushed
ProcessUser ==
  /\ op = "generateTeamIssuesReport"
  /\ pc = "processUsers"
  /\ idx <= Len(targetUsers)
  /\ teamStats' = Append(teamStats, getUserIssueStats(targetUsers[idx]))
  /\ requests' = requests \o ForTarget(idx, UserRequests(targetUsers[idx]))
  /\ idx' = idx + 1
  /\ UNCHANGED <<op, pc, allUsers, result, collectLocals, teamEmails, targetUsers,
                 notFound, failedUsers, mergedVars, activityLocals, pureVars>>

\* lines 419-427: getUserIssueStats raises, one of its issue fetches being
\* rejected after the requests before it; the catch goes on to the next
\* user
ProcessUserRaises ==
  /\ op = "generateTeamIssuesReport"
  /\ pc = "processUsers"
  /\ idx <= Len(targetUsers)
  /\ failedUsers' = failedUsers \cup {idx}
  /\ \E n \in IssueFetches(UserRequests(targetUsers[idx])) :
       requests' = requests
                     \o ForTarget(idx, SubSeq(UserRequests(targetUsers[idx]), 1, n))
  /\ idx' = idx + 1
  /\ UNCHANGED <<op, pc, allUsers, result, collectLocals, teamEmails, targetUsers,
                 notFound, teamStats, mergedVars, activityLocals, pureVars>>

\* the report withheld when no user's stats were collected
SortAndReturnNullWithoutStats ==
  /\ op = "generateTeamIssuesReport"
  /\ pc = "processUsers"
  /\ idx > Len(targetUsers)
  /\ teamStats' = SortStats(teamStats)
  /\ result' = [kind |-> "return",
                value |-> IF Len(teamStats) = 0 THEN JSNull ELSE Report(teamStats')]
  /\ pc' = "returned"
  /\ UNCHANGED <<op, allUsers, idx, collectLocals, teamEmails, targetUsers, notFound,
                 failedUsers, mergedVars, activityVars, pureVars>>

\* lines 430-448: the stats are sorted in place and the report is returned
SortAndReturnReport ==
  /\ op = "generateTeamIssuesReport"
  /\ pc = "processUsers"
  /\ idx > Len(targetUsers)
  /\ teamStats' = SortStats(teamStats)
  /\ result' = [kind |-> "return", value |-> Report(teamStats')]
  /\ pc' = "returned"
  /\ UNCHANGED <<op, allUsers, idx, collectLocals, teamEmails, targetUsers, notFound,
                 failedUsers, mergedVars, activityVars, pureVars>>

-----------------------------------------------------------------------------
(* getUserActivity (src/unnamed/part_000, 38-298) after its user loop.     *)
(*                                                                         *)
(* activityRemote.comments are the comments of the user the remote holds,  *)
(* each with the issue it belongs to (null for a comment on something      *)
(* else).  activityRemote.reactions is what the reactions request does: it *)
(* rejects, or answers from the reaction nodes the remote holds; a node    *)
(* carries its issue (or null) and issueErr, whether `await                *)
(* reaction.issue` rejects.  A list request answers the first `limit`      *)
(* records the remote holds, as one page.                                  *)
(* activityRemote.issues tells for each issue id what linearClient.issue   *)
(* does: it answers the issue ("issue"), answers nothing ("null"),         *)
(* rejects ("rejects"), or answers an issue whose state lookup rejects     *)
(* ("stateRejects").                                                       *)

\* the most comments the remote holds
MaxComments == 2

\* the most reaction nodes the remote holds
MaxReactions == 2

CommentNode(k, issue) == [id |-> "C" \o ToString(k), issue |-> issue]

ReactionNode(k, issue, issueErr) ==
  [id |-> "R" \o ToString(k), emoji |-> "e" \o ToString(k), issue |-> issue,
   issueErr |-> issueErr]

\* what `await comment.issue` and `await reaction.issue` resolve to
IssueRefs == {JSNull} \cup {JSString(id) : id \in IssueIds}

CommentLists ==
  UNION { {[k \in 1..n |-> CommentNode(k, f[k])] : f \in [1..n -> IssueRefs]} :
          n \in 0..MaxComments }

\* a reaction's issue lookup answers one of IssueRefs or rejects
ReactionLookups ==
  {[issue |-> r, issueErr |-> FALSE] : r \in IssueRefs}
    \cup {[issue |-> JSNull, issueErr |-> TRUE]}

ReactionLists ==
  UNION { {[k \in 1..n |-> ReactionNode(k, f[k].issue, f[k].issueErr)] :
             f \in [1..n -> ReactionLookups]} :
          n \in 0..MaxReactions }

ReactionAnswers ==
  {[outcome |-> "rejects", nodes |-> <<>>]}
    \cup {[outcome |-> "connection", nodes |-> l] : l \in ReactionLists}

IssueAnswers ==
  { f \in [IssueIds -> {"issue", "null", "rejects", "stateRejects"}] :
      f["I2"] \in {"issue", "rejects"} }

ActivityRemotes ==
  [comments : CommentLists, reactions : ReactionAnswers, issues : IssueAnswers]

\* a remote without comments and reactions
QuietRemote ==
  [comments |-> <<>>, reactions |-> [outcome |-> "connection", nodes |-> <<>>],
   issues |-> [id \in IssueIds |-> "issue"]]

\* lines 88-99
Activity0(u) ==
  [user |-> u.id, comments |-> <<>>, reactions |-> <<>>, issueUpdates |-> <<>>,
   issueCreations |-> <<>>, issueAssignments |-> <<>>]

NoActivity ==
  [user |-> "", comments |-> <<>>, reactions |-> <<>>, issueUpdates |-> <<>>,
   issueCreations |-> <<>>, issueAssignments |-> <<>>]

\* line 39: options.limit; a request takes at least one record
Limits == 1..MaxPage

\* the page a request with `first: limit` answers from the records held
FirstPage(records) == SubSeq(records, 1, Min(limit, Len(records)))

\* getUserActivity does not run
IdleActivity ==
  /\ userEmail = NoText
  /\ limit = 0
  /\ user = JSNull
  /\ activity = NoActivity
  /\ reactionsByIssue = <<>>
  /\ issueIdsWithActivity = <<>>
  /\ activityRemote = QuietRemote
  /\ requests = <<>>

\* what getUserActivity is given: its parameter and the remote
activityInputs == <<userEmail, limit, activityRemote>>

\* lines 65-75: the exact match, then the partial match
FindUser(users, email) ==
  LET exact == Find(users, {k \in DOMAIN users : ExactEmailMatch(users[k], email)})
  IN  IF Truthy(exact)
        THEN exact
        ELSE Find(users, {k \in DOMAIN users : PartialEmailMatch(users[k], email)})

\* the error reporting the users that have an email
UserNotFoundCountsEmails(users, email) ==
  [type |-> "error", email |-> email,
   found |-> Cardinality({k \in DOMAIN users : users[k].email # NoText})]

\* line 83: `Found ${allUsers.length} users total`
UserNotFound(users, email) ==
  [type |-> "error", email |-> email, found |-> Len(users)]

\* lines 65-99: the user is looked up; without one the error of line 83 is
\* raised, and the catch of lines 294-297 raises it again
LookUpUser ==
  /\ op = "getUserActivity"
  /\ pc = "usersFetched"
  /\ user' = FindUser(allUsers, userEmail)
  /\ IF ~Truthy(user')
       THEN /\ pc' = "threw"
            /\ result' = [kind |-> "throw", value |-> UserNotFound(allUsers, userEmail)]
            /\ activity' = activity
       ELSE /\ pc' = "fetchComments"
            /\ result' = result
            /\ activity' = Activity0(user')
  /\ UNCHANGED <<op, allUsers, idx, collectLocals, activityInputs, reactionsByIssue,
                 issueIdsWithActivity, requests, mergedVars, teamVars, pureVars>>

\* lines 118-128: the entry pushed for a comment; issue?.id is undefined
\* when the comment has no issue
CommentEntry(comment) ==
  [id |-> comment.id,
   issue |-> IF Truthy(comment.issue) THEN comment.issue ELSE Undefined]

\* lines 101-131
FetchComments ==
  /\ op = "getUserActivity"
  /\ pc = "fetchComments"
  /\ requests' = Append(requests, <<"comments">>)
  /\ LET comments == FirstPage(activityRemote.comments)
     IN  activity' = [activity EXCEPT
                        !.comments = [k \in DOMAIN comments |-> CommentEntry(comments[k])]]
  /\ pc' = "fetchReactions"
  /\ UNCHANGED <<op, allUsers, idx, result, collectLocals, activityInputs, user,
                 reactionsByIssue, issueIdsWithActivity, mergedVars, teamVars, pureVars>>

\* Map.prototype.has
MapHas(map, key) == \E k \in DOMAIN map : map[k].key = key

\* Map.prototype.get, for a key the map has
MapGet(map, key) == map[CHOOSE k \in DOMAIN map : map[k].key = key].value

\* lines 152-158: the reaction is pushed to the list its issue has in the Map
MapPush(map, key, value) ==
  IF MapHas(map, key)
    THEN [k \in DOMAIN map |->
            IF map[k].key = key
              THEN [key |-> key, value |-> Append(map[k].value, value)]
              ELSE map[k]]
    ELSE Append(map, [key |-> key, value |-> <<value>>])

\* lines 149-173: the loop over the reaction nodes from node k on; it ends
\* at the end of the nodes or at the first issue lookup that rejects
RECURSIVE GroupReactions(_, _, _)
GroupReactions(nodes, k, acc) ==
  IF k > Len(nodes)
    THEN acc
  ELSE IF nodes[k].issueErr
    THEN [acc EXCEPT !.raised = TRUE]
  ELSE IF ~Truthy(nodes[k].issue)
    THEN GroupReactions(nodes, k + 1, acc)
  ELSE GroupReactions(nodes, k + 1,
         [acc EXCEPT
            !.byIssue = MapPush(@, nodes[k].issue.val, [emoji |-> nodes[k].emoji]),
            !.reactions = Append(@, [id |-> nodes[k].id, emoji |-> nodes[k].emoji,
                                     issue |-> nodes[k].issue])])

\* the body of the try of lines 139-174
ReactionsTry(answer) ==
  IF answer.outcome = "rejects"
    THEN [byIssue |-> <<>>, reactions |-> <<>>, raised |-> TRUE]
    ELSE GroupReactions(FirstPage(answer.nodes), 1,
                        [byIssue |-> <<>>, reactions |-> <<>>, raised |-> FALSE])

\* lines 133-179: the reactions are fetched and grouped by issue; the
\* catch of lines 175-179 warns and lets the function go on with what the
\* try has filled
FetchReactions ==
  /\ op = "getUserActivity"
  /\ pc = "fetchReactions"
  /\ requests' = Append(requests, <<"reactions">>)
  /\ LET r == ReactionsTry(activityRemote.reactions)
     IN  /\ reactionsByIssue' = r.byIssue
         /\ activity' = [activity EXCEPT !.reactions = r.reactions]
  /\ pc' = "collectIssueIds"
  /\ UNCHANGED <<op, allUsers, idx, result, collectLocals, activityInputs, user,
                 issueIdsWithActivity, mergedVars, teamVars, pureVars>>

\* the member added whether the set has it or not
SetAddAgain(set, x) == Append(set, x)

\* Set.prototype.add
SetAdd(set, x) == IF \E k \in DOMAIN set : set[k] = x THEN set ELSE Append(set, x)

\* lines 187-191
RECURSIVE AddCommentIssues(_, _, _)
AddCommentIssues(set, comments, k) ==
  IF k > Len(comments)
    THEN set
  ELSE IF Truthy(comments[k].issue)
    THEN AddCommentIssues(SetAdd(set, comments[k].issue.val), comments, k + 1)
  ELSE AddCommentIssues(set, comments, k + 1)

\* lines 194-196
RECURSIVE AddReactionIssues(_, _, _)
AddReactionIssues(set, map, k) ==
  IF k > Len(map)
    THEN set
    ELSE AddReactionIssues(SetAdd(set, map[k].key), map, k + 1)

\* lines 181-196
CollectIssueIds ==
  /\ op = "getUserActivity"
  /\ pc = "collectIssueIds"
  /\ issueIdsWithActivity' =
       AddReactionIssues(AddCommentIssues(<<>>, activity.comments, 1), reactionsByIssue, 1)
  /\ idx' = 1
  /\ pc' = "fetchIssues"
  /\ UNCHANGED <<op, allUsers, result, collectLocals, activityInputs, user, activity,
                 reactionsByIssue, requests, mergedVars, teamVars, pureVars>>

\* lines 203-221: the record pushed for an issue
IssueUpdate(issueId) ==
  LET issueComments ==
        SelectSeq(activity.comments, LAMBDA c : c.issue = JSString(issueId))
      issueReactions ==
        IF MapHas(reactionsByIssue, issueId) THEN MapGet(reactionsByIssue, issueId) ELSE <<>>
  IN  [issue |-> issueId,
       comments |-> [k \in DOMAIN issueComments |-> issueComments[k].id],
       reactions |-> issueReactions]

\* lines 199-222: one iteration of the loop over issueIdsWithActivity, the
\* issue request answering; an answer of nothing pushes no record
FetchIssueDetails ==
  /\ op = "getUserActivity"
  /\ pc = "fetchIssues"
  /\ idx <= Len(issueIdsWithActivity)
  /\ LET issueId == issueIdsWithActivity[idx]
     IN  /\ activityRemote.issues[issueId] \in {"issue", "null"}
         /\ requests' = Append(requests, <<"issue", issueId>>)
         /\ activity' =
              IF activityRemote.issues[issueId] = "issue"
                THEN [activity EXCEPT !.issueUpdates = Append(@, IssueUpdate(issueId))]
                ELSE activity
  /\ idx' = idx + 1
  /\ UNCHANGED <<op, pc, allUsers, result, collectLocals, activityInputs, user,
                 reactionsByIssue, issueIdsWithActivity, mergedVars, teamVars, pureVars>>

\* the rejected issue request leaving getUserActivity as an error
FetchIssueDetailsRejectedRaises ==
  /\ op = "getUserActivity"
  /\ pc = "fetchIssues"
  /\ idx <= Len(issueIdsWithActivity)
  /\ activityRemote.issues[issueIdsWithActivity[idx]] \in {"rejects", "stateRejects"}
  /\ requests' = Append(requests, <<"issue", issueIdsWithActivity[idx]>>)
  /\ pc' = "threw"
  /\ result' = [kind |-> "throw", value |-> NoValue]
  /\ UNCHANGED <<op, allUsers, idx, collectLocals, activityInputs, user, activity,
                 reactionsByIssue, issueIdsWithActivity, mergedVars, teamVars, pureVars>>

\* lines 199-226: one iteration, the issue request or the state lookup of
\* line 212 rejecting: the catch of lines 223-225 warns, no record is pushed
FetchIssueDetailsRejected ==
  /\ op = "getUserActivity"
  /\ pc = "fetchIssues"
  /\ idx <= Len(issueIdsWithActivity)
  /\ activityRemote.issues[issueIdsWithActivity[idx]] \in {"rejects", "stateRejects"}
  /\ requests' = Append(requests, <<"issue", issueIdsWithActivity[idx]>>)
  /\ idx' = idx + 1
  /\ UNCHANGED <<op, pc, allUsers, result, collectLocals, activityInputs, user, activity,
                 reactionsByIssue, issueIdsWithActivity, mergedVars, teamVars, pureVars>>

\* lines 227-293: the interactions are complete; the issues assigned to
\* the user and created by it are requested, one request each, and the
\* activity is returned with the nodes the two requests answered, the
\* first page of each list
FetchUserIssuesAndReturn ==
  /\ op = "getUserActivity"
  /\ pc = "fetchIssues"
  /\ idx > Len(issueIdsWithActivity)
  /\ requests' = requests \o << <<"issues", "assignee">>, <<"issues", "creator">> >>
  /\ LET lists == RemoteUserIssues(user.id)
     IN  activity' = [activity EXCEPT !.issueAssignments = FirstPage(lists.assigned),
                                      !.issueCreations = FirstPage(lists.created)]
  /\ result' = [kind |-> "return", value |-> activity']
  /\ pc' = "returned"
  /\ UNCHANGED <<op, allUsers, idx, collectLocals, activityInputs, user,
                 reactionsByIssue, issueIdsWithActivity, mergedVars, teamVars, pureVars>>

-----------------------------------------------------------------------------
(* normalizeLineTerminators (src/unnamed/part_000, 22-29).                 *)
(*                                                                         *)
(* Here a text is the sequence of its UTF-16 code units.                   *)

\* the longest text normalizeLineTerminators is given
MaxText == 3

\* the line feed, the replacement of lines 25-28
LF == 10

\* the carriage return of lines 27-28
CR == 13

\* U+2028, the line separator of line 25
LS == 8232

\* U+2029, the paragraph separator of line 26
PS == 8233

\* the code units of the texts: the four above and one that ends no line,
\* the letter a
CodeUnits == {LF, CR, LS, PS} \cup {97}

Texts == SeqsUpTo(CodeUnits, MaxText)

\* String.prototype.replace with a global pattern of literal code units:
\* the matches are found from the left, none overlapping another
RECURSIVE ReplaceAll(_, _, _)
ReplaceAll(s, pattern, replacement) ==
  IF Len(s) < Len(pattern)
    THEN s
  ELSE IF SubSeq(s, 1, Len(pattern)) = pattern
    THEN replacement \o ReplaceAll(SubSeq(s, Len(pattern) + 1, Len(s)), pattern, replacement)
  ELSE <<Head(s)>> \o ReplaceAll(Tail(s), pattern, replacement)

\* lines 22-29: the empty text is returned as it is (line 23); the four
\* replacements are made one after the other, each on the result of the
\* one before
normalizeLineTerminators(s) ==
  IF Len(s) = 0
    THEN s
    ELSE ReplaceAll(ReplaceAll(ReplaceAll(ReplaceAll(s, <<LS>>, <<LF>>),
                                          <<PS>>, <<LF>>),
                               <<CR, LF>>, <<LF>>),
                    <<CR>>, <<LF>>)

\* normalizeLineTerminators is called with the text
CallNormalizeLineTerminators ==
  /\ ppc = "normalize"
  /\ normalized' = normalizeLineTerminators(text)
  /\ ppc' = "normalized"
  /\ UNCHANGED <<text, since, until, assignedFilter, createdFilter, mergedVars,
                 collectVars, teamVars, activityVars>>

-----------------------------------------------------------------------------
(* The issue filters of getUserIssueStats (src/team_issues_report.js,      *)
(* 267-280 and 313-326).                                                   *)
(*                                                                         *)
(* An object is the function from its keys to their values.  since and     *)
(* until are what the options carry: nothing, null or a Date.              *)

\* the dates the options can carry
Dates == {"2024-01-01", "2024-01-31", "2024-03-01"}

\* a Date object
JSDate(d) == [type |-> "object", val |-> d]

TimeBounds == {Undefined, JSNull} \cup {JSDate(d) : d \in Dates}

\* `{ ...object, [key]: value }`, and `object[key] = value`
WithKey(object, key, value) ==
  [k \in DOMAIN object \cup {key} |-> IF k = key THEN value ELSE object[k]]

\* the user the filters are built for
FilterUser == "U1"

\* the upper bound replacing the condition the field has
WithUntilOverwriting(filter, field, u) ==
  IF Truthy(u) THEN WithKey(filter, field, [lte |-> u]) ELSE filter

\* lines 271-273 and 317-319: `if (since)`
WithSince(filter, field, s) ==
  IF Truthy(s) THEN WithKey(filter, field, [gte |-> s]) ELSE filter

\* lines 274-280 and 320-326: `if (until)`, the upper bound joining the
\* condition the field has, or being the condition
WithUntil(filter, field, u) ==
  IF ~Truthy(u)
    THEN filter
  ELSE IF field \in DOMAIN filter
    THEN WithKey(filter, field, WithKey(filter[field], "lte", u))
  ELSE WithKey(filter, field, [lte |-> u])

\* lines 267-280
BuildAssignedFilter ==
  /\ ppc = "assignedFilter"
  /\ assignedFilter' =
       WithUntil(WithSince([assignee |-> [id |-> [eq |-> FilterUser]]], "updatedAt", since),
                 "updatedAt", until)
  /\ ppc' = "createdFilter"
  /\ UNCHANGED <<text, normalized, since, until, createdFilter, mergedVars,
                 collectVars, teamVars, activityVars>>

\* lines 313-326
BuildCreatedFilter ==
  /\ ppc = "createdFilter"
  /\ createdFilter' =
       WithUntil(WithSince([creator |-> [id |-> [eq |-> FilterUser]]], "createdAt", since),
                 "createdAt", until)
  /\ ppc' = "filtersBuilt"
  /\ UNCHANGED <<text, normalized, since, until, assignedFilter, mergedVars,
                 collectVars, teamVars, activityVars>>

-----------------------------------------------------------------------------
(* The specifications.                                                     *)

NoOut == [kind |-> "none", value |-> FALSE, stateReads |-> 0, examined |-> 0, caught |-> {}]

\* neither normalizeLineTerminators is called nor the filters are built
IdlePure ==
  /\ ppc = "idle"
  /\ text = <<>>
  /\ normalized = <<>>
  /\ since = Undefined
  /\ until = Undefined
  /\ assignedFilter = <<>>
  /\ createdFilter = <<>>

\* hasMergedPR is not called on its own
IdleMerged ==
  /\ mpc = "idle"
  /\ mIssue = [attachments |-> [outcome |-> "null", nodes |-> <<>>], state |-> JSNull]
  /\ mOut = NoOut

\* hasMergedPR called with an issue
InitMerged ==
  /\ mpc = "ready"
  /\ mIssue \in Issues
  /\ mOut = NoOut
  /\ IdlePure
  /\ IdleCollect
  /\ IdleTeam
  /\ IdleActivity

\* the call hasMergedPR(mIssue), to its completion
CallHasMergedPR ==
  /\ mpc = "ready"
  /\ mpc' = "done"
  /\ mOut' = hasMergedPR(mIssue)
  /\ UNCHANGED <<mIssue, collectVars, teamVars, activityVars, pureVars>>

NextMerged == CallHasMergedPR

SpecMerged == InitMerged /\ [][NextMerged]_vars

\* one collection operation, against a remote
Init ==
  /\ IdleMerged
  /\ IdlePure
  /\ IdleTeam
  /\ IdleActivity
  /\ \/ InitCollect("getAllUsers",
                    Remotes(SeqsUpTo(UserIds, MaxN), {<<>>}, {<<>>}))
     \/ InitCollect("getUserActivity",
                    Remotes(SeqsUpTo(UserIds, MaxN), {<<>>}, {<<>>}))
     \/ InitCollect("getUserIssueStats",
                    Remotes({<<>>}, SeqsUpTo(IssueIds, MaxN), SeqsUpTo(IssueIds, MaxN)))

Next ==
  \/ GetAllUsersPage
  \/ GetAllUsersFetchRejected
  \/ GetUserActivityUsersPage
  \/ GetUserActivityUsersFetchRejected
  \/ FetchAssignedPage
  \/ FetchAssignedRejected
  \/ CheckAssignedIssue
  \/ StartCreatedLoop
  \/ FetchCreatedPage
  \/ FetchCreatedRejected
  \/ CheckCreatedIssue
  \/ ReturnStats

Spec == Init /\ [][Next]_vars

\* the locals of the collection loops as they are before any loop runs
IdleCollectLocals ==
  /\ remote = [users |-> <<>>, assigned |-> <<>>, created |-> <<>>, pageSize |-> 1,
               hasNext |-> "exact", cursor |-> "token"]
  /\ hasNextPage = TRUE
  /\ after = JSNull
  /\ assignedCount = 0
  /\ assignedIssuesList = <<>>
  /\ createdCount = 0
  /\ createdIssuesList = <<>>
  /\ mergedPRCount = 0
  /\ stats = Stats0
  /\ fetches = Fetches0
  /\ lastLen = -1
  /\ fetchFailed = FALSE
  /\ calls = <<>>

\* generateTeamIssuesReport at line 393: getAllUsers has returned
InitTeam ==
  /\ op = "generateTeamIssuesReport"
  /\ pc = "usersFetched"
  /\ allUsers \in UserLists
  /\ teamEmails \in TeamEmailsInputs
  /\ targetUsers = <<>>
  /\ notFound = <<>>
  /\ teamStats = <<>>
  /\ failedUsers = {}
  /\ idx = 0
  /\ result = NoResult
  /\ IdleCollectLocals
  /\ IdleActivity
  /\ IdleMerged
  /\ IdlePure

\* getUserActivity at line 62: the user loop has ended.  Either the user
\* list and the email vary against a remote without activity, or the
\* remote's activity varies for a user that is found.
InitActivity ==
  /\ op = "getUserActivity"
  /\ pc = "usersFetched"
  /\ \/ /\ allUsers \in UserLists
        /\ userEmail \in Emails
        /\ limit = MaxPage
        /\ activityRemote = QuietRemote
     \/ /\ allUsers = <<User("U2", <<"b", "a">> \o EmailDomain),
                        User("U1", <<"a">> \o EmailDomain)>>
        /\ userEmail = <<"a">> \o EmailDomain
        /\ limit \in Limits
        /\ activityRemote \in ActivityRemotes
  /\ user = JSNull
  /\ activity = NoActivity
  /\ reactionsByIssue = <<>>
  /\ issueIdsWithActivity = <<>>
  /\ requests = <<>>
  /\ idx = 0
  /\ result = NoResult
  /\ IdleCollectLocals
  /\ IdleTeam
  /\ IdleMerged
  /\ IdlePure

InitReports == InitTeam \/ InitActivity

NextReports ==
  \/ ResolveTargetUsers
  \/ ProcessUser
  \/ ProcessUserRaises
  \/ SortAndReturnReport
  \/ LookUpUser
  \/ FetchComments
  \/ FetchReactions
  \/ CollectIssueIds
  \/ FetchIssueDetails
  \/ FetchIssueDetailsRejected
  \/ FetchUserIssuesAndReturn

\* one run of generateTeamIssuesReport or of getUserActivity
SpecReports == InitReports /\ [][NextReports]_vars

\* normalizeLineTerminators about to be called with a text
InitNormalize ==
  /\ ppc = "normalize"
  /\ text \in Texts
  /\ normalized = <<>>
  /\ since = Undefined
  /\ until = Undefined
  /\ assignedFilter = <<>>
  /\ createdFilter = <<>>

\* getUserIssueStats at line 267, called with a time window
InitFilters ==
  /\ ppc = "assignedFilter"
  /\ text = <<>>
  /\ normalized = <<>>
  /\ since \in TimeBounds
  /\ until \in TimeBounds
  /\ assignedFilter = <<>>
  /\ createdFilter = <<>>

InitPure ==
  /\ InitNormalize \/ InitFilters
  /\ IdleMerged
  /\ IdleCollect
  /\ IdleTeam
  /\ IdleActivity

NextPure ==
  \/ CallNormalizeLineTerminators
  \/ BuildAssignedFilter
  \/ BuildCreatedFilter

\* one call of normalizeLineTerminators, or the filters of one call of
\* getUserIssueStats
SpecPure == InitPure /\ [][NextPure]_vars

\* getUserIssueStats called on its own, or generateTeamIssuesReport at
\* line 393
InitStats ==
  \/ /\ IdleMerged
     /\ IdlePure
     /\ IdleTeam
     /\ IdleActivity
     /\ InitCollect("getUserIssueStats",
                    Remotes({<<>>}, SeqsUpTo(IssueIds, MaxN), SeqsUpTo(IssueIds, MaxN)))
  \/ InitTeam

NextStats ==
  \/ FetchAssignedPage
  \/ FetchAssignedRejected
  \/ CheckAssignedIssue
  \/ StartCreatedLoop
  \/ FetchCreatedPage
  \/ FetchCreatedRejected
  \/ CheckCreatedIssue
  \/ ReturnStats
  \/ ResolveTargetUsers
  \/ ProcessUser
  \/ ProcessUserRaises
  \/ SortAndReturnReport

\* one run of getUserIssueStats, or of generateTeamIssuesReport with the
\* calls of getUserIssueStats it makes
SpecStats == InitStats /\ [][NextStats]_vars

-----------------------------------------------------------------------------
(* The claims about the collection loops.                                  *)

IsPrefix(s, t) == Len(s) <= Len(t) /\ s = SubSeq(t, 1, Len(s))

CeilDiv(a, b) == (a + b - 1) \div b

UserOps == {"getAllUsers", "getUserActivity"}

\* the remote links its pages by cursors and reports no next page on the
\* last one
CursorLinkedPages == remote.cursor = "token" /\ remote.hasNext \in {"exact", "full"}

\* the assigned loop has ended normally
AssignedCollected == pc \in {"checkAssigned", "createdLoop", "checkCreated", "returned"}

\* the created loop has ended normally
CreatedCollected == pc \in {"checkCreated", "returned"}

\* C1: against a remote that serves its records over cursor-linked pages,
\* each collection loop holds at every moment the records of the pages
\* fetched so far, once each and in the remote's order, and when it ends it
\* holds exactly the remote's records, whatever the number of pages.
C1_CollectsEachRecordOnce ==
  CursorLinkedPages =>
    /\ IsPrefix(allUsers, remote.users)
    /\ (op \in UserOps /\ pc \in {"returned", "usersFetched"}) => allUsers = remote.users
    /\ (op = "getAllUsers" /\ pc = "returned") => result.value = remote.users
    /\ IsPrefix(assignedIssuesList, remote.assigned)
    /\ assignedCount = Len(assignedIssuesList)
    /\ (op = "getUserIssueStats" /\ AssignedCollected) =>
         assignedIssuesList = remote.assigned
    /\ IsPrefix(createdIssuesList, remote.created)
    /\ createdCount = Len(createdIssuesList)
    /\ (op = "getUserIssueStats" /\ CreatedCollected) =>
         createdIssuesList = remote.created

\* getUserIssueStats returned after collecting three assigned issues over
\* two pages or more
C1_Witness ==
  /\ CursorLinkedPages
  /\ op = "getUserIssueStats"
  /\ pc = "returned"
  /\ fetches.assigned >= 2
  /\ Len(remote.assigned) = 3
  /\ assignedIssuesList = remote.assigned
  /\ result.value.assigned = 3

\* C2: in getUserIssueStats neither issue loop goes on after a page without
\* records, whatever that page reports as hasNextPage.
C2_IssueLoopsStopOnEmptyPage ==
  (op = "getUserIssueStats" /\ pc \in {"assignedLoop", "createdLoop"}) => lastLen # 0

\* the assigned loop has ended on an empty page that reported a next page
C2_Witness ==
  /\ op = "getUserIssueStats"
  /\ pc = "checkAssigned"
  /\ idx = 1
  /\ lastLen = 0
  /\ hasNextPage
  /\ fetches.assigned >= 2

\* C3: the user loop does not go on after a page without records that
\* reports hasNextPage = true.
C3_UsersLoopStopsOnEmptyPage ==
  (op \in UserOps /\ pc = "usersLoop") => lastLen # 0

\* C4: against a remote that serves N records in pages of pageSize records
\* linked by cursors, each issue loop makes at most ceil(N / pageSize) + 1
\* page fetches.
C4_FetchBound ==
  (op = "getUserIssueStats" /\ remote.cursor = "token") =>
    /\ fetches.assigned <= CeilDiv(Len(remote.assigned), remote.pageSize) + 1
    /\ fetches.created <= CeilDiv(Len(remote.created), remote.pageSize) + 1

\* the assigned loop has ended after exactly ceil(N / pageSize) + 1 fetches
\* of a collection of two pages
C4_Witness ==
  /\ op = "getUserIssueStats"
  /\ remote.cursor = "token"
  /\ AssignedCollected
  /\ Len(remote.assigned) > remote.pageSize
  /\ fetches.assigned = CeilDiv(Len(remote.assigned), remote.pageSize) + 1

\* C5: once a page fetch of getUserIssueStats has failed, the call has
\* completed by raising: it returns no stats object, in particular none
\* that counts the pages fetched before the failure.
C5_FailedFetchFailsCall ==
  (op = "getUserIssueStats" /\ fetchFailed) =>
    /\ pc = "threw"
    /\ result.kind = "throw"
    /\ result.value = NoValue

\* the created fetch failed after pages of both collections were fetched
C5_Witness ==
  /\ op = "getUserIssueStats"
  /\ fetchFailed
  /\ assignedCount > 0
  /\ createdCount > 0
  /\ pc = "threw"

\* the number of times x occurs in the list
Count(list, x) == Cardinality({k \in DOMAIN list : list[k] = x})

\* the calls of hasMergedPR that answered true
MergedCalls == {k \in DOMAIN calls : hasMergedPR(RemoteIssue(calls[k])).value}

\* C11: in getUserIssueStats an issue of the assigned list that is also in
\* the created list is classified in the assigned pass and skipped in the
\* created pass: hasMergedPR is called for it as often as the assigned list
\* holds it, once for an issue the list holds once, so that it adds at most
\* one to withMergedPRs, which counts the calls that answered true.
C11_CountedOnceAcrossLists ==
  (op = "getUserIssueStats" /\ pc \in {"checkCreated", "returned"}) =>
    /\ \A x \in IssueIds :
         (Count(assignedIssuesList, x) > 0 /\ Count(createdIssuesList, x) > 0) =>
           /\ Count(calls, x) = Count(assignedIssuesList, x)
           /\ Count(assignedIssuesList, x) = 1 =>
                Cardinality({k \in MergedCalls : calls[k] = x}) <= 1
    /\ pc = "returned" => result.value.withMergedPRs = Cardinality(MergedCalls)

\* the stats returned for a user whose only assigned issue, with a merged
\* pull request, is twice in the created list: it is counted once
C11_Witness ==
  /\ op = "getUserIssueStats"
  /\ pc = "returned"
  /\ assignedIssuesList = <<"I1">>
  /\ createdIssuesList = <<"I1", "I1">>
  /\ calls = <<"I1">>
  /\ result.value.withMergedPRs = 1

\* C30: the stats getUserIssueStats returns have assigned and created equal
\* to the lengths of the collected lists, totalHandled their sum (an issue
\* in both lists counts twice), and withMergedPRs at most totalHandled.
C30_StatsCountTheLists ==
  (op = "getUserIssueStats" /\ pc = "returned") =>
    /\ result.kind = "return"
    /\ result.value = stats
    /\ stats.assigned = Len(assignedIssuesList)
    /\ stats.created = Len(createdIssuesList)
    /\ stats.totalHandled = Len(assignedIssuesList) + Len(createdIssuesList)
    /\ stats.withMergedPRs <= stats.totalHandled

\* the issue with the merged pull request is the user's one assigned and
\* one created issue: handled twice, merged once
C30_Witness ==
  /\ op = "getUserIssueStats"
  /\ pc = "returned"
  /\ assignedIssuesList = <<"I1">>
  /\ createdIssuesList = <<"I1">>
  /\ result.value.totalHandled = 2
  /\ result.value.withMergedPRs = 1

\* the distinct issues of a collected list
DistinctIssues(list) == {list[k] : k \in DOMAIN list}

\* C28: for the stats getUserIssueStats returns, withMergedPRs is at most
\* the number of distinct issues in the two collected lists, and
\* hasMergedPR was called at most once for each distinct issue, also when
\* an issue is more than once within a list.
C28_OncePerDistinctIssue ==
  (op = "getUserIssueStats" /\ pc = "returned") =>
    /\ result.value.withMergedPRs
         <= Cardinality(DistinctIssues(assignedIssuesList)
                          \cup DistinctIssues(createdIssuesList))
    /\ \A x \in IssueIds : Count(calls, x) <= 1

\* the loop that is at its head, about to fetch a page, and the fetches it
\* has made
LoopAtHead ==
  CASE op \in UserOps /\ pc = "usersLoop" -> <<TRUE, fetches.users>>
    [] op = "getUserIssueStats" /\ pc = "assignedLoop" -> <<TRUE, fetches.assigned>>
    [] op = "getUserIssueStats" /\ pc = "createdLoop" -> <<TRUE, fetches.created>>
    [] OTHER -> <<FALSE, 0>>

\* C27: in every collection loop each page fetch after the first passes the
\* end cursor the page before it reported, whatever that cursor is, never
\* a fetch without cursor; so the records collected are at every moment
\* the remote's records from the first on, none of them a second time.
C27_LaterFetchesPassTheCursor ==
  /\ (LoopAtHead[1] /\ LoopAtHead[2] >= 1) => FetchArgs(after).after # Undefined
  /\ IsPrefix(allUsers, remote.users)
  /\ IsPrefix(assignedIssuesList, remote.assigned)
  /\ IsPrefix(createdIssuesList, remote.created)

-----------------------------------------------------------------------------
(* The claims about hasMergedPR, stated in the claims' own terms.          *)

\* a PR-shaped attachment: the URL contains /pull/, /pulls/ or
\* /merge_requests/, or the title or subtitle contains 'pull request' or
\* 'merge request', or the subtype contains 'pull' or 'merge', the text
\* fields compared case-insensitively
PRShaped(a) ==
  /\ a.present
  /\ \/ \E marker \in {StrPull, StrPulls, StrMergeRequests} : Includes(a.url, marker)
     \/ \E field \in {a.title, a.subtitle} :
          \E phrase \in {StrPullRequest, StrMergeRequest} :
            Includes(ToLowerCase(field), phrase)
     \/ \E word \in {StrPullWord, StrMergeWord} : Includes(ToLowerCase(a.subtype), word)

\* the metadata signals merged
MergedSignal(a) ==
  /\ a.metadata.type = "object"
  /\ \/ a.metadata.state = JSString("merged")
     \/ a.metadata.merged = JSBoolean(TRUE)
     \/ a.metadata.status = JSString("merged")

\* the workflow state name is exactly 'Done', 'Completed' or 'Merged'
DoneName(issue) ==
  /\ issue.state.type = "object"
  /\ issue.state.name \in {"Done", "Completed", "Merged"}

\* the attachments the call sees (none when the fetch fails or gives nothing)
Nodes(issue) == issue.attachments.nodes

\* attachment i decides the call: it is PR-shaped and either its metadata
\* signals merged or its state lookup answers a done state
Decides(issue, i) ==
  /\ PRShaped(Nodes(issue)[i])
  /\ \/ MergedSignal(Nodes(issue)[i])
     \/ ~Nodes(issue)[i].stateErr /\ DoneName(issue)

\* examining attachment i fails: the loop reaches it, it is PR-shaped
\* without merged metadata, and the state lookup made for it rejects
ExaminationFails(issue, i) ==
  /\ \A j \in 1..(i - 1) : ~Decides(issue, j)
  /\ PRShaped(Nodes(issue)[i])
  /\ ~MergedSignal(Nodes(issue)[i])
  /\ Nodes(issue)[i].stateErr

\* C6: hasMergedPR returns true only when some attachment is PR-shaped and
\* either its metadata signals merged or the workflow state name is Done,
\* Completed or Merged; in every other case, failures included, it
\* completes by returning false.
C6_TrueOnlyWithEvidence ==
  mpc = "done" =>
    /\ mOut.kind = "return"
    /\ mOut.value \in BOOLEAN
    /\ mOut.value =>
         \E i \in DOMAIN Nodes(mIssue) :
           /\ PRShaped(Nodes(mIssue)[i])
           /\ MergedSignal(Nodes(mIssue)[i]) \/ DoneName(mIssue)

\* a call answered true by the state fallback alone
C6_Witness ==
  /\ mpc = "done"
  /\ mOut.value
  /\ \A i \in DOMAIN Nodes(mIssue) : ~MergedSignal(Nodes(mIssue)[i])

\* C7: with a PR-shaped attachment whose metadata signals merged the call
\* returns true whatever the workflow state is, and it looks the state up
\* only for PR-shaped attachments that come before that one.
C7_MergedMetadataDecides ==
  \A i \in DOMAIN Nodes(mIssue) :
    (mpc = "done" /\ PRShaped(Nodes(mIssue)[i]) /\ MergedSignal(Nodes(mIssue)[i])) =>
      /\ mOut.kind = "return"
      /\ mOut.value
      /\ mOut.stateReads <= Cardinality({j \in 1..(i - 1) : PRShaped(Nodes(mIssue)[j])})

\* merged by the boolean flag, the issue not in a done state and its state
\* lookup bound to reject: the call returns true without a lookup
C7_Witness ==
  /\ mpc = "done"
  /\ mOut.value
  /\ mOut.stateReads = 0
  /\ ~DoneName(mIssue)
  /\ \E i \in DOMAIN Nodes(mIssue) :
       /\ PRShaped(Nodes(mIssue)[i])
       /\ Nodes(mIssue)[i].metadata.type = "object"
       /\ Nodes(mIssue)[i].metadata.merged = JSBoolean(TRUE)
       /\ Nodes(mIssue)[i].stateErr

\* the issue has PR-shaped attachments and none of them signals merged
OnlyUnmergedPRs(issue) ==
  /\ \E i \in DOMAIN Nodes(issue) : PRShaped(Nodes(issue)[i])
  /\ \A i \in DOMAIN Nodes(issue) :
       PRShaped(Nodes(issue)[i]) => ~MergedSignal(Nodes(issue)[i])

\* C8: when the only PR-shaped attachments have no metadata or metadata
\* that does not signal merged, the call returns true exactly when the
\* workflow state name is 'Done', 'Completed' or 'Merged' (case-sensitive)
\* and the state lookup answered for one of those attachments; when every
\* lookup answers, that is: exactly when the name is one of the three.
C8_FallbackOnStateName ==
  (mpc = "done" /\ OnlyUnmergedPRs(mIssue)) =>
    /\ mOut.kind = "return"
    /\ mOut.value <=>
         /\ DoneName(mIssue)
         /\ \E i \in DOMAIN Nodes(mIssue) :
              PRShaped(Nodes(mIssue)[i]) /\ ~Nodes(mIssue)[i].stateErr

\* a PR-shaped attachment without metadata on an issue in state Done
C8_Witness ==
  /\ mpc = "done"
  /\ OnlyUnmergedPRs(mIssue)
  /\ mIssue.state.type = "object"
  /\ mIssue.state.name = "Done"
  /\ \E i \in DOMAIN Nodes(mIssue) :
       PRShaped(Nodes(mIssue)[i]) /\ Nodes(mIssue)[i].metadata = Undefined
  /\ mOut.value

\* C9: hasMergedPR never completes by raising; when fetching the
\* attachments fails it returns false.
C9_NeverThrows ==
  mpc = "done" =>
    /\ mOut.kind = "return"
    /\ mIssue.attachments.outcome = "rejects" => ~mOut.value

\* a call whose attachments fetch rejected
C9_Witness ==
  /\ mpc = "done"
  /\ mIssue.attachments.outcome = "rejects"
  /\ mOut.kind = "return"

\* C10: when examining an attachment fails, the attachment is skipped and
\* the later ones are still examined: a later PR-shaped attachment with
\* merged metadata makes the result true, and when no attachment decides,
\* every attachment was examined and the result is false.
C10_FailedAttachmentSkipped ==
  \A i \in DOMAIN Nodes(mIssue) :
    (mpc = "done" /\ ExaminationFails(mIssue, i)) =>
      /\ mOut.kind = "return"
      /\ i \in mOut.caught
      /\ mOut.examined > i \/ i = Len(Nodes(mIssue))
      /\ (\E j \in (i + 1)..Len(Nodes(mIssue)) :
            PRShaped(Nodes(mIssue)[j]) /\ MergedSignal(Nodes(mIssue)[j]))
           => mOut.value
      /\ (\A j \in DOMAIN Nodes(mIssue) : ~Decides(mIssue, j))
           => ~mOut.value /\ mOut.examined = Len(Nodes(mIssue))

\* the first attachment's state lookup rejects, the second carries merged
\* metadata, and the call returns true
C10_Witness ==
  /\ mpc = "done"
  /\ Len(Nodes(mIssue)) >= 2
  /\ ExaminationFails(mIssue, 1)
  /\ PRShaped(Nodes(mIssue)[2])
  /\ MergedSignal(Nodes(mIssue)[2])
  /\ mOut.value

\* the issue has no PR-shaped attachment: it has no attachments at all, or
\* none of them is PR-shaped
NoPRShapedAttachment(issue) ==
  /\ issue.attachments.outcome # "rejects"
  /\ \A i \in DOMAIN Nodes(issue) : ~PRShaped(Nodes(issue)[i])

\* C23: for an issue with no attachments, or with only attachments that
\* are not PR-shaped, hasMergedPR returns false whatever the workflow state
\* is, and it makes no lookup of the workflow state.
C23_NoPRNoStateRead ==
  (mpc = "done" /\ NoPRShapedAttachment(mIssue)) =>
    /\ mOut.kind = "return"
    /\ ~mOut.value
    /\ mOut.stateReads = 0

\* an issue in state Done whose attachments are all there, none PR-shaped,
\* one of them with merged metadata: false, and no lookup
C23_Witness ==
  /\ mpc = "done"
  /\ NoPRShapedAttachment(mIssue)
  /\ DoneName(mIssue)
  /\ Len(Nodes(mIssue)) = MaxAtt
  /\ \A i \in DOMAIN Nodes(mIssue) : Nodes(mIssue)[i].present
  /\ \E i \in DOMAIN Nodes(mIssue) : MergedSignal(Nodes(mIssue)[i])
  /\ ~mOut.value
  /\ mOut.stateReads = 0

-----------------------------------------------------------------------------
(* The claims about generateTeamIssuesReport and findUsersByEmails.        *)

Range(list) == {list[k] : k \in DOMAIN list}

TeamOp == op = "generateTeamIssuesReport"

\* generateTeamIssuesReport has returned a report
ReportReturned == TeamOp /\ pc = "returned" /\ result.value.type = "object"

StatFields == {"assigned", "created", "withMergedPRs", "totalHandled"}

\* the summary total that belongs to a field of the stats
TotalOf(summary, field) ==
  CASE field = "assigned" -> summary.totalIssuesAssigned
    [] field = "created" -> summary.totalIssuesCreated
    [] field = "withMergedPRs" -> summary.totalIssuesWithMergedPRs
    [] OTHER -> summary.totalIssuesHandled

\* the sum of a field over the entries at the positions S of the list
RECURSIVE SumOver(_, _, _)
SumOver(list, field, S) ==
  IF S = {}
    THEN 0
    ELSE LET k == CHOOSE j \in S : TRUE
         IN  list[k][field] + SumOver(list, field, S \ {k})

\* the stats of the first k target users, in the order of the target list,
\* those left out whose processing raised
RECURSIVE ProcessedStats(_)
ProcessedStats(k) ==
  IF k = 0
    THEN <<>>
    ELSE ProcessedStats(k - 1)
           \o (IF k \in failedUsers THEN <<>> ELSE <<getUserIssueStats(targetUsers[k])>>)

\* the two lists hold the same entries, each as often
SameEntries(a, b) == \A s \in Range(a) \cup Range(b) : Count(a, s) = Count(b, s)

\* C12: in a returned report each summary total is the sum of its field
\* over the entries of teamStats and totalDevelopers is their number; the
\* entries are those of the target users processed without error, so a
\* user whose processing raised adds to no total.
C12_TotalsSumTeamStats ==
  ReportReturned =>
    LET report == result.value
        all == ProcessedStats(Len(targetUsers))
    IN  /\ \A f \in StatFields :
             /\ TotalOf(report.summary, f)
                  = SumOver(report.teamStats, f, DOMAIN report.teamStats)
             /\ TotalOf(report.summary, f) = SumOver(all, f, DOMAIN all)
        /\ report.summary.totalDevelopers = Len(report.teamStats)
        /\ Len(report.teamStats) = Len(targetUsers) - Cardinality(failedUsers)

\* the report of the specification's example, with a third user whose
\* processing raised: two entries, the first with two assigned issues and
\* one merged, the second with none
C12_Witness ==
  /\ ReportReturned
  /\ Len(targetUsers) = 3
  /\ Cardinality(failedUsers) = 1
  /\ Len(result.value.teamStats) = 2
  /\ result.value.teamStats[1].assigned = 2
  /\ result.value.teamStats[1].withMergedPRs = 1
  /\ result.value.teamStats[2].assigned = 0
  /\ result.value.summary.totalDevelopers = 2
  /\ result.value.summary.totalIssuesWithMergedPRs = 1

\* C13: a target user whose processing raised has no entry in teamStats,
\* the other target users are processed all the same, and the entry of each
\* is what getUserIssueStats returns for it, whichever users raised.
C13_FailedUserOmitted ==
  TeamOp =>
    /\ pc = "processUsers" =>
         /\ failedUsers \subseteq 1..(idx - 1)
         /\ teamStats = ProcessedStats(idx - 1)
    /\ ReportReturned =>
         /\ result.value.teamStats = teamStats
         /\ SameEntries(teamStats, ProcessedStats(Len(targetUsers)))
         /\ \A k \in failedUsers :
              (\A j \in DOMAIN targetUsers : j # k => targetUsers[j].id # targetUsers[k].id)
                => \A e \in Range(teamStats) : e.userId # targetUsers[k].id

\* the first of three target users raised, the two after it have their
\* entries
C13_Witness ==
  /\ ReportReturned
  /\ Len(targetUsers) = 3
  /\ failedUsers = {1}
  /\ {e.userId : e \in Range(teamStats)} = {targetUsers[2].id, targetUsers[3].id}
  /\ targetUsers[1].id \notin {targetUsers[2].id, targetUsers[3].id}

\* the first position of the list that holds the entry
FirstPos(list, s) == CHOOSE k \in DOMAIN list : list[k] = s /\ \A j \in 1..(k - 1) : list[j] # s

\* C14: the teamStats of a returned report are in descending order of
\* totalHandled, and entries of equal totalHandled are in the order in
\* which their users were processed.
C14_SortedDescendingStable ==
  ReportReturned =>
    LET sorted == result.value.teamStats
        processed == ProcessedStats(Len(targetUsers))
    IN  /\ SameEntries(sorted, processed)
        /\ \A j, k \in DOMAIN sorted :
             j < k =>
               /\ sorted[j].totalHandled >= sorted[k].totalHandled
               /\ sorted[j].totalHandled = sorted[k].totalHandled
                    => FirstPos(processed, sorted[j]) <= FirstPos(processed, sorted[k])

\* three users processed in the order U4, U1, U3: U1 and U3 handled three
\* issues each and come first, in that order, U4 with one issue comes last
C14_Witness ==
  /\ ReportReturned
  /\ failedUsers = {}
  /\ [k \in DOMAIN targetUsers |-> targetUsers[k].id] = <<"U4", "U1", "U3">>
  /\ [k \in DOMAIN teamStats |-> teamStats[k].userId] = <<"U1", "U3", "U4">>
  /\ teamStats[1].totalHandled = teamStats[2].totalHandled

\* the two addresses are equal up to the case of their letters
SameEmail(a, b) ==
  /\ Len(a) = Len(b)
  /\ \A k \in DOMAIN a : ToLowerChar(a[k]) = ToLowerChar(b[k])

\* the user has an email that equals the target up to case
HasEmail(u, target) == u.email # NoText /\ SameEmail(u.email, target)

\* the user's email contains the target, up to case
EmailContains(u, target) ==
  /\ u.email # NoText
  /\ \E j \in 0..(Len(u.email) - Len(target)) :
       SameEmail(SubSeq(u.email, j + 1, j + Len(target)), target)

\* generateTeamIssuesReport has resolved the given emails
EmailsResolved ==
  TeamOp /\ pc # "usersFetched" /\ teamEmails.type = "array" /\ Len(teamEmails.val) > 0

\* some user of the list matches the email, exactly or by substring
Resolvable(email) == \E u \in Range(allUsers) : EmailContains(u, email)

\* the place in the found list of the k-th email, when it is resolvable
FoundIndex(k) == Cardinality({j \in 1..k : Resolvable(teamEmails.val[j])})

ActivityOp == op = "getUserActivity"

\* C15: when some user's email equals the target up to case, the user
\* resolved for the target, by findUsersByEmails and by the lookup of
\* getUserActivity, has such an email, also when a user earlier in the list
\* only contains the target in its email; a user that only contains the
\* target is resolved only when no user has it exactly.
C15_ExactMatchWins ==
  /\ EmailsResolved =>
       \A k \in DOMAIN teamEmails.val :
         (\E u \in Range(allUsers) : HasEmail(u, teamEmails.val[k])) =>
           /\ FoundIndex(k) \in DOMAIN targetUsers
           /\ HasEmail(targetUsers[FoundIndex(k)], teamEmails.val[k])
  /\ (ActivityOp /\ pc # "usersFetched"
        /\ \E u \in Range(allUsers) : HasEmail(u, userEmail)) =>
       user.type = "object" /\ HasEmail(user, userEmail)

\* the first user of the list only contains the asked address, a later one
\* has it, and findUsersByEmails has resolved the later one
C15_Witness ==
  /\ EmailsResolved
  /\ Len(allUsers) >= 2
  /\ EmailContains(allUsers[1], teamEmails.val[1])
  /\ ~HasEmail(allUsers[1], teamEmails.val[1])
  /\ HasEmail(allUsers[2], teamEmails.val[1])
  /\ targetUsers[1] = allUsers[2]

\* C16: findUsersByEmails puts every given email either into the found
\* list, as a user that matches it, or into the not-found list, in the
\* order of the emails; an email without a user raises no error, and a
\* report is returned exactly when some email was matched, its entries being
\* entries of matched users.
C16_EachEmailFoundOrNotFound ==
  EmailsResolved =>
    /\ Len(targetUsers) + Len(notFound) = Len(teamEmails.val)
    /\ \A k \in DOMAIN teamEmails.val :
         IF Resolvable(teamEmails.val[k])
           THEN /\ FoundIndex(k) \in DOMAIN targetUsers
                /\ EmailContains(targetUsers[FoundIndex(k)], teamEmails.val[k])
           ELSE /\ (k - FoundIndex(k)) \in DOMAIN notFound
                /\ notFound[k - FoundIndex(k)] = teamEmails.val[k]
    /\ pc # "threw"
    /\ result.kind # "throw"
    /\ pc = "returned" =>
         /\ result.value.type = "object" <=> Len(targetUsers) >= 1
         /\ result.value.type = "object" =>
              \A e \in Range(result.value.teamStats) :
                \E u \in Range(targetUsers) : u.id = e.userId

\* of two emails the first has no user and the second has one: the report
\* is returned with the entry of that user
C16_Witness ==
  /\ EmailsResolved
  /\ ReportReturned
  /\ Len(teamEmails.val) = 2
  /\ notFound = <<teamEmails.val[1]>>
  /\ Len(targetUsers) = 1
  /\ Len(result.value.teamStats) = 1

\* resolution leaves no target user: emails were given and none of them is
\* resolvable, or none were given and the workspace has no user
NoTargetUser ==
  IF teamEmails.type = "array" /\ Len(teamEmails.val) > 0
    THEN \A k \in DOMAIN teamEmails.val : ~Resolvable(teamEmails.val[k])
    ELSE Len(allUsers) = 0

\* C24: generateTeamIssuesReport returns null exactly when resolution
\* leaves no target user, and then it has processed no user; with a target
\* user it goes through all of them and returns a report, also when
\* processing fails for some or for all of them.
C24_NullOnlyWithoutTargets ==
  (TeamOp /\ pc # "usersFetched") =>
    /\ Len(targetUsers) = 0 <=> NoTargetUser
    /\ pc = "processUsers" => Len(targetUsers) > 0
    /\ pc = "returned" =>
         /\ result.kind = "return"
         /\ result.value = JSNull <=> NoTargetUser
         /\ NoTargetUser => idx = 0 /\ teamStats = <<>> /\ failedUsers = {}
         /\ ~NoTargetUser =>
              /\ result.value.type = "object"
              /\ idx = Len(targetUsers) + 1
              /\ Len(result.value.teamStats) = Len(targetUsers) - Cardinality(failedUsers)

\* processing has failed for each of two target users: a report without
\* entries is returned
C24_Witness ==
  /\ ReportReturned
  /\ Len(targetUsers) = 2
  /\ failedUsers = {1, 2}
  /\ result.value.teamStats = <<>>
  /\ result.value.summary.totalDevelopers = 0

\* C29: a report returned in team mode holds at most one entry per user
\* identifier, also when two of the given emails resolve to the same user.
C29_OneEntryPerUser ==
  (ReportReturned /\ EmailsResolved) =>
    \A j, k \in DOMAIN result.value.teamStats :
      j # k => result.value.teamStats[j].userId # result.value.teamStats[k].userId

-----------------------------------------------------------------------------
(* The claims about getUserActivity.                                       *)

\* C17: when no user matches the email, exactly or by substring,
\* getUserActivity completes by raising an error that reports the number
\* of users fetched, and it has made no comments, reactions or issue
\* request.
C17_NoUserNoRequests ==
  (ActivityOp /\ pc # "usersFetched"
     /\ ~\E u \in Range(allUsers) : EmailContains(u, userEmail)) =>
    /\ pc = "threw"
    /\ result.kind = "throw"
    /\ result.value.type = "error"
    /\ result.value.found = Len(allUsers)
    /\ requests = <<>>

\* three users were fetched, one of them without email, none matches: the
\* error reports three users
C17_Witness ==
  /\ ActivityOp
  /\ pc = "threw"
  /\ Len(allUsers) = 3
  /\ \E u \in Range(allUsers) : u.email = NoText
  /\ result.value.found = 3
  /\ requests = <<>>

\* the issues of the collected comments
CommentIssues ==
  {c.issue.val : c \in {d \in Range(activity.comments) : d.issue.type = "string"}}

\* the issues of the collected reactions
ReactionIssues == {r.issue.val : r \in Range(activity.reactions)}

\* the issues the user has a collected comment or reaction on
TouchedIssues == CommentIssues \cup ReactionIssues

\* the records of issueUpdates for the issue
UpdatesOf(id) == {k \in DOMAIN activity.issueUpdates : activity.issueUpdates[k].issue = id}

\* the record carries the collected comments and reactions of its issue
CarriesActivityOf(update, id) ==
  /\ Range(update.comments)
       = {c.id : c \in {d \in Range(activity.comments) : d.issue = JSString(id)}}
  /\ Len(update.comments) = Cardinality(Range(update.comments))
  /\ {r.emoji : r \in Range(update.reactions)}
       = {r.emoji : r \in {s \in Range(activity.reactions) : s.issue = JSString(id)}}
  /\ Len(update.reactions) = Cardinality(Range(update.reactions))

\* C18: when every issue request answers its issue, issueUpdates of the
\* returned activity holds exactly one record for each issue that has a
\* collected comment or a collected reaction, carrying the comments and the
\* reactions collected for it, and no record for any other issue.
C18_JoinOncePerIssue ==
  (ActivityOp /\ pc = "returned"
     /\ \A id \in TouchedIssues : activityRemote.issues[id] = "issue") =>
    /\ result.value = activity
    /\ \A id \in IssueIds :
         /\ Cardinality(UpdatesOf(id)) = IF id \in TouchedIssues THEN 1 ELSE 0
         /\ \A k \in UpdatesOf(id) : CarriesActivityOf(activity.issueUpdates[k], id)
    /\ Len(activity.issueUpdates) = Cardinality(TouchedIssues)

\* two comments and a reaction on one issue, a reaction only on the other:
\* two records, the first with both
C18_Witness ==
  /\ ActivityOp
  /\ pc = "returned"
  /\ Len(activity.comments) = 2
  /\ CommentIssues = {"I1"}
  /\ ReactionIssues = {"I1", "I2"}
  /\ Len(activity.issueUpdates) = 2
  /\ Len(activity.issueUpdates[1].comments) = 2
  /\ Len(activity.issueUpdates[1].reactions) = 1
  /\ activity.issueUpdates[2].comments = <<>>

\* fetching the reactions has failed: the request was rejected, or the
\* issue lookup of one of the reactions answered was
ReactionsFailed ==
  \/ activityRemote.reactions.outcome = "rejects"
  \/ \E k \in DOMAIN FirstPage(activityRemote.reactions.nodes) :
       activityRemote.reactions.nodes[k].issueErr

\* C19: when fetching the reactions has failed, getUserActivity does not
\* raise, and the activity has no reaction: activity.reactions is empty and
\* no record of issueUpdates carries a reaction.
C19_FailedReactionsLeaveNone ==
  (ActivityOp /\ ReactionsFailed
     /\ pc \in {"collectIssueIds", "fetchIssues", "returned", "threw"}) =>
    /\ pc # "threw"
    /\ activity.reactions = <<>>
    /\ \A k \in DOMAIN activity.issueUpdates : activity.issueUpdates[k].reactions = <<>>

\* an issue request, or the state lookup of the issue it answered, failed
IssueFetchFails(id) == activityRemote.issues[id] \in {"rejects", "stateRejects"}

\* C20: an issue whose fetch fails during the joining has no record in
\* issueUpdates, every other issue of the activity set whose fetch answers
\* it has its record, and getUserActivity returns.
C20_FailedIssueSkipped ==
  ActivityOp =>
    /\ pc = "returned" =>
         /\ Range(issueIdsWithActivity) = TouchedIssues
         /\ \A id \in TouchedIssues :
              /\ IssueFetchFails(id) => UpdatesOf(id) = {}
              /\ activityRemote.issues[id] = "issue" => Cardinality(UpdatesOf(id)) = 1
              /\ \E k \in DOMAIN requests : requests[k] = <<"issue", id>>
    /\ pc = "threw" => requests = <<>>

\* the fetch of the first issue of the activity set failed, the second
\* issue has its record and the activity is returned
C20_Witness ==
  /\ ActivityOp
  /\ pc = "returned"
  /\ Len(issueIdsWithActivity) = 2
  /\ IssueFetchFails(issueIdsWithActivity[1])
  /\ activityRemote.issues[issueIdsWithActivity[2]] = "issue"
  /\ Len(activity.issueUpdates) = 1
  /\ activity.issueUpdates[1].issue = issueIdsWithActivity[2]

-----------------------------------------------------------------------------
(* Claims about what getUserActivity collects.                             *)

\* the ids of the records of a list, in order
IdsOf(records) == [k \in DOMAIN records |-> records[k].id]

\* the reaction nodes held that are reactions on an issue
IssueReactionsHeld ==
  SelectSeq(activityRemote.reactions.nodes, LAMBDA r : Truthy(r.issue))

\* no request for the reactions, and no issue lookup of a reaction held,
\* rejects
ReactionsAnswer ==
  /\ activityRemote.reactions.outcome = "connection"
  /\ \A k \in DOMAIN activityRemote.reactions.nodes :
       ~activityRemote.reactions.nodes[k].issueErr

\* C21: the activity getUserActivity returns holds every record the remote
\* holds for the user: all its comments, all its reactions on issues (when
\* the remote answers the reaction requests), all the issues assigned to it
\* and all the issues it created, also when they are more than `limit`.
C21_CollectsEveryRecord ==
  (op = "getUserActivity" /\ pc = "returned") =>
    /\ IdsOf(activity.comments) = IdsOf(activityRemote.comments)
    /\ ReactionsAnswer => IdsOf(activity.reactions) = IdsOf(IssueReactionsHeld)
    /\ activity.issueAssignments = RemoteUserIssues(user.id).assigned
    /\ activity.issueCreations = RemoteUserIssues(user.id).created

-----------------------------------------------------------------------------
(* The claims about normalizeLineTerminators and the issue filters.        *)

\* the text read from the left, each CR LF pair, each lone CR, each U+2028
\* and each U+2029 giving one line feed and every other code unit itself
RECURSIVE OneLineFeedEach(_)
OneLineFeedEach(s) ==
  IF Len(s) = 0
    THEN <<>>
  ELSE IF Len(s) >= 2 /\ s[1] = CR /\ s[2] = LF
    THEN <<LF>> \o OneLineFeedEach(SubSeq(s, 3, Len(s)))
  ELSE IF s[1] \in {CR, LS, PS}
    THEN <<LF>> \o OneLineFeedEach(Tail(s))
  ELSE <<s[1]>> \o OneLineFeedEach(Tail(s))

\* C22: the text normalizeLineTerminators returns has no carriage return,
\* no U+2028 and no U+2029; it is the text given with one line feed for
\* each CR LF pair and for each lone CR, U+2028 and U+2029, the other
\* characters kept in order; and normalizing it again changes nothing.
C22_OneLineFeedPerTerminator ==
  ppc = "normalized" =>
    /\ \A k \in DOMAIN normalized : normalized[k] \notin {CR, LS, PS}
    /\ normalized = OneLineFeedEach(text)
    /\ normalizeLineTerminators(normalized) = normalized

\* a time bound is given
Given(bound) == bound.type = "object"

\* the date condition the time window asks for: the lower bound under gte
\* when since is given, the upper bound under lte when until is given
WindowCondition ==
  [k \in (IF Given(since) THEN {"gte"} ELSE {}) \cup (IF Given(until) THEN {"lte"} ELSE {})
     |-> IF k = "gte" THEN since ELSE until]

\* the filter with the date condition of the window on the field, and
\* without a date condition when the window is open on both sides
FollowsWindow(filter, who, field) ==
  /\ DOMAIN filter = {who} \cup (IF Given(since) \/ Given(until) THEN {field} ELSE {})
  /\ filter[who] = [id |-> [eq |-> FilterUser]]
  /\ field \in DOMAIN filter => filter[field] = WindowCondition

\* C26: the filters getUserIssueStats builds follow the time window: gte
\* alone with since only, lte alone with until only, both with both, no
\* date condition with neither; the condition is on updatedAt in the filter
\* of the assigned issues and on createdAt in that of the created issues.
C26_FiltersFollowWindow ==
  /\ ppc \in {"createdFilter", "filtersBuilt"} =>
       FollowsWindow(assignedFilter, "assignee", "updatedAt")
  /\ ppc = "filtersBuilt" => FollowsWindow(createdFilter, "creator", "createdAt")

\* both bounds given: each filter carries both, on its own field
C26_Witness ==
  /\ ppc = "filtersBuilt"
  /\ Given(since)
  /\ Given(until)
  /\ assignedFilter.updatedAt = [gte |-> since, lte |-> until]
  /\ createdFilter.createdAt = [gte |-> since, lte |-> until]
  /\ "createdAt" \notin DOMAIN assignedFilter

-----------------------------------------------------------------------------
(* The claim about the order of the remote calls.                          *)

\* getUserIssueStats is at the assigned issues: collecting or classifying
AtAssigned == op = "getUserIssueStats" /\ pc \in {"assignedLoop", "checkAssigned"}

\* getUserIssueStats is at the created issues, or past them
AtCreated == op = "getUserIssueStats" /\ pc \in {"createdLoop", "checkCreated", "returned"}

\* hasMergedPR has been called for every collected assigned issue, in order
AssignedClassified ==
  /\ Len(calls) >= Len(assignedIssuesList)
  /\ SubSeq(calls, 1, Len(assignedIssuesList)) = assignedIssuesList

\* the requests made for the target user of a position
RequestsFor(position) == {k \in DOMAIN requests : requests[k].target = position}

\* C25: the remote calls are made one after the other.  In the team report
\* the requests for a target user all come before those for the next one,
\* and none is made for a user the loop has not reached.  In
\* getUserIssueStats no created issue is fetched or classified while the
\* assigned ones are collected and classified, and once the created issues
\* are begun the assigned ones are all classified and nothing of them
\* changes any more.
C25_RemoteCallsInSequence ==
  /\ [](TeamOp =>
          /\ \A j, k \in DOMAIN requests : j < k => requests[j].target <= requests[k].target
          /\ \A k \in DOMAIN requests : requests[k].target < idx)
  /\ [](AtAssigned =>
          /\ fetches.created = 0
          /\ createdIssuesList = <<>>
          /\ IsPrefix(calls, assignedIssuesList))
  /\ [](AtCreated =>
          /\ AssignedClassified
          /\ stats.assigned = Len(assignedIssuesList))
  /\ [][AtCreated =>
          /\ ~AtAssigned'
          /\ fetches.assigned' = fetches.assigned
          /\ assignedIssuesList' = assignedIssuesList
          /\ SubSeq(calls', 1, Len(assignedIssuesList)) = assignedIssuesList]_vars

\* a report over three target users, the second of which failed at the
\* fetch of its created issues: requests were made for each of the three
C25_Witness ==
  /\ ReportReturned
  /\ Len(targetUsers) = 3
  /\ failedUsers = {2}
  /\ \A position \in 1..3 : Cardinality(RequestsFor(position)) >= 2
  /\ requests[Len(requests)].target = 3

=============================================================================
